-------------------------------- MODULE Quota --------------------------------
(***************************************************************************)
(* A team's quota, and the counting of what it stores                      *)
(* (internal/db/quota.go and migration 0013): writers write and are        *)
(* charged; triggers append what objects change to a table of deltas,      *)
(* which garbage collection folds into a counter per namespace; parts are  *)
(* summed where they are.                                                  *)
(*                                                                         *)
(* One team and its namespaces; each has one multipart upload, of one      *)
(* part.  A transaction takes its locks one statement at a time and        *)
(* publishes its writes in its last step.                                  *)
(***************************************************************************)
EXTENDS Integers, FiniteSetsExt, Functions

CONSTANTS
    Namespace,  \* namespace ids
    Key,        \* keys of objects
    Size,       \* sizes of what is put
    Limit,      \* the team's quota
    Writer,     \* requests
    Folder,     \* background loops
    DeltaId,    \* ids of deltas: as many as may wait to be folded (bounds the model)
    None        \* no namespace, no key, no counter

ASSUME QuotaAssumption ==
    /\ IsFiniteSet(Namespace)
    /\ IsFiniteSet(Key)
    /\ Size \subseteq Nat \ {0}
    /\ Limit \in Nat
    /\ None \notin Namespace \cup Key \cup Int

VARIABLES
    open,       \* the namespaces that exist
    deleting,   \* the one whose row a deletion has locked, or None
    objects,    \* the size of each object, or 0 where there is none
    part,       \* the size of the part staged in each namespace, or 0
    completed,  \* the uploads that were completed, and are not removed yet
    usage,      \* table namespace_usage: a counter of bytes each, or None
    deltas,     \* table usage_deltas
    writer,     \* the requests past their write
    folder      \* the deltas a fold has locked, and the counters it will add them to

stored == <<objects, part, completed>>
counters == <<usage, deltas>>
vars == <<open, deleting, stored, counters, writer, folder>>

IdleWriter == [pc |-> "idle", op |-> None, ns |-> None, key |-> None, size |-> 0]
IdleFolder == [taken |-> {}, counted |-> {}]

Init ==
    /\ open = {}
    /\ deleting = None
    /\ objects = [n \in Namespace |-> [k \in Key |-> 0]]
    /\ part = [n \in Namespace |-> 0]
    /\ completed = {}
    /\ usage = [n \in Namespace |-> None]
    /\ deltas = {}
    /\ writer = [w \in Writer |-> IdleWriter]
    /\ folder = [f \in Folder |-> IdleFolder]

----------------------------------------------------------------------------
(* What is stored, what is counted, and who holds what. *)

Weight(n) == SumFunction(objects[n])
Bytes(ds, n) == SumFunctionOnSet([d \in ds |-> d.bytes], {d \in ds : d.ns = n})
Counter(n) == IF usage[n] = None THEN 0 ELSE usage[n]

\* Mutant of TenantUsage: what is not folded yet is not counted.
TenantUsageFolded(leftOut) ==
    SumFunction([n \in open |-> Counter(n)]) + SumFunctionOnSet(part, open \ leftOut)

\* tenantUsage: the counters and deltas of the team's namespaces, and the
\* parts of its uploads, without those left out.
TenantUsage(leftOut) ==
    SumFunction([n \in open |-> Counter(n) + Bytes(deltas, n)])
        + SumFunctionOnSet(part, open \ leftOut)

\* A request past its write holds the object's key and its namespace, or the
\* part's row and its upload.
Writing(n) == {w \in Writer : writer[w].ns = n /\ writer[w].op # "part"}
PartWriting(n) == {w \in Writer : writer[w].ns = n /\ writer[w].op = "part"}
KeyHolders(n, k) == {w \in Writing(n) : writer[w].key = k}
TeamHolders == {w \in Writer : writer[w].pc \in {"enforce", "commit"}}

\* Only a new object's row refers to its namespace anew, and shares its lock.
Inserting(n) == {w \in Writing(n) : objects[n][writer[w].key] = 0}

Locked == UNION {folder[f].taken : f \in Folder}

Becomes(w, r) == writer' = [writer EXCEPT ![w] = r]
Folds(f, r) == folder' = [folder EXCEPT ![f] = r]

----------------------------------------------------------------------------
(* Writing. *)

\* UpsertObject, in Put, CopyObject or LinkBlob, or in the completion of the
\* namespace's upload.  It waits for others that write the same key, and
\* for a deletion of the namespace.  What is completed is what was staged.  The
\* unlocked check that some make before (CheckQuota) may be long past.
WriteObject(w, op, n, k, s) ==
    /\ writer[w].pc = "idle"
    /\ n \in open \ {deleting}
    /\ KeyHolders(n, k) = {}
    /\ op = "complete" => s = part[n]
    /\ Becomes(w, [pc |-> "lockTeam", op |-> op, ns |-> n, key |-> k, size |-> s])
    /\ UNCHANGED <<open, deleting, stored, counters, folder>>

\* The upsert of a part.
WritePart(w, n, s) ==
    /\ writer[w].pc = "idle"
    /\ n \in open
    /\ PartWriting(n) = {}
    /\ Becomes(w, [pc |-> "lockTeam", op |-> "part", ns |-> n, key |-> None, size |-> s])
    /\ UNCHANGED <<open, deleting, stored, counters, folder>>

\* Mutant of LockTeam: the team is not locked.
LockTeamNever(w) ==
    /\ writer[w].pc = "lockTeam"
    /\ Becomes(w, [writer[w] EXCEPT !.pc = "enforce"])
    /\ UNCHANGED <<open, deleting, stored, counters, folder>>

\* EnforceQuota locks the team ...
LockTeam(w) ==
    /\ writer[w].pc = "lockTeam"
    /\ TeamHolders = {}
    /\ Becomes(w, [writer[w] EXCEPT !.pc = "enforce"])
    /\ UNCHANGED <<open, deleting, stored, counters, folder>>

\* How much a write adds.
Growth(r) == r.size - (IF r.op = "part" THEN part[r.ns] ELSE objects[r.ns][r.key])

\* Mutant of LeftOut: a completed object is charged besides its parts.
LeftOutNothing(r) == {}
\* The upload whose parts a write does not count: the one it completes.
LeftOut(r) == IF r.op = "complete" THEN {r.ns} ELSE {}

\* ... and then sums what it stores, with what this transaction wrote.
Fits(r) == TenantUsage(LeftOut(r)) + Growth(r) <= Limit

EnforceQuota(w) ==
    /\ writer[w].pc = "enforce"
    /\ Fits(writer[w])
    /\ Becomes(w, [writer[w] EXCEPT !.pc = "commit"])
    /\ UNCHANGED <<open, deleting, stored, counters, folder>>

Refuse(w) ==
    /\ writer[w].pc = "enforce"
    /\ ~Fits(writer[w])
    /\ Becomes(w, IdleWriter)
    /\ UNCHANGED <<open, deleting, stored, counters, folder>>

\* The triggers append one delta for a statement, none for no net change.
Append(n, bytes) ==
    \/ bytes = 0 /\ UNCHANGED deltas
    \/ /\ bytes # 0
       /\ \E id \in DeltaId \ {d.id : d \in deltas} :
             deltas' = deltas \cup {[id |-> id, ns |-> n, bytes |-> bytes]}

CommitObject(w) ==
    LET r == writer[w] IN
    /\ r.pc = "commit"
    /\ r.op # "part"
    /\ Append(r.ns, Growth(r))
    /\ objects' = [objects EXCEPT ![r.ns][r.key] = r.size]
    /\ completed' = completed \cup LeftOut(r)
    /\ Becomes(w, IdleWriter)
    /\ UNCHANGED <<open, deleting, part, usage, folder>>

CommitPart(w) ==
    LET r == writer[w] IN
    /\ r.pc = "commit"
    /\ r.op = "part"
    /\ part' = [part EXCEPT ![r.ns] = r.size]
    /\ Becomes(w, IdleWriter)
    /\ UNCHANGED <<open, deleting, objects, completed, counters, folder>>

\* The database fails, or the client is gone: nothing that was written stays.
FailWrite(w) ==
    /\ writer[w].pc # "idle"
    /\ Becomes(w, IdleWriter)
    /\ UNCHANGED <<open, deleting, stored, counters, folder>>

\* RemoveMultipart and SweepMultipart drop an upload's parts, once those that
\* are being written are committed: the parts of one that was completed, by
\* the same request or later, of one that is aborted, or of an idle one.
DropParts(n) ==
    /\ PartWriting(n) = {}
    /\ part' = [part EXCEPT ![n] = 0]
    /\ completed' = completed \ {n}

RemoveMultipart(n) ==
    /\ part[n] # 0
    /\ DropParts(n)
    /\ UNCHANGED <<open, deleting, objects, counters, writer, folder>>

DeleteObject(n, k) ==
    /\ objects[n][k] # 0
    /\ KeyHolders(n, k) = {}
    /\ Append(n, -objects[n][k])
    /\ objects' = [objects EXCEPT ![n][k] = 0]
    /\ UNCHANGED <<open, deleting, part, completed, usage, writer, folder>>

----------------------------------------------------------------------------
(* Namespaces. *)

\* Ids are not used again: this one is named nowhere.
CreateNamespace(n) ==
    /\ n \notin open
    /\ \A d \in deltas : d.ns # n
    /\ Writing(n) \cup PartWriting(n) = {}
    /\ \A f \in Folder : n \notin folder[f].counted
    /\ open' = open \cup {n}
    /\ UNCHANGED <<deleting, stored, counters, writer, folder>>

\* Mutant of LockNamespace: inserts are not waited for.
LockNamespaceAtOnce(n) ==
    /\ deleting = None
    /\ n \in open
    /\ Weight(n) = 0
    /\ deleting' = n
    /\ UNCHANGED <<open, stored, counters, writer, folder>>

\* DeleteNamespace locks the row, which those who insert objects share, and
\* finds none.  (Where there are some it changes nothing; one that is deleted
\* between the lock and this look is as if it were deleted before.)
LockNamespace(n) ==
    /\ deleting = None
    /\ n \in open
    /\ Inserting(n) = {}
    /\ Weight(n) = 0
    /\ deleting' = n
    /\ UNCHANGED <<open, stored, counters, writer, folder>>

\* It deletes it, with its counter and its upload.  Its deltas stay.
DeleteNamespace ==
    /\ deleting # None
    /\ DropParts(deleting)
    /\ open' = open \ {deleting}
    /\ usage' = [usage EXCEPT ![deleting] = None]
    /\ deleting' = None
    /\ UNCHANGED <<objects, deltas, writer, folder>>

\* It fails.
FailDelete ==
    /\ deleting # None
    /\ deleting' = None
    /\ UNCHANGED <<open, stored, counters, writer, folder>>

----------------------------------------------------------------------------
(* Folding. *)

\* Mutant of TakeDeltas: deltas another fold has locked are taken too.
TakeDeltasLocked(f) ==
    /\ folder[f] = IdleFolder
    /\ deltas # {}
    /\ Folds(f, [taken |-> deltas, counted |-> {d.ns : d \in deltas} \cap open])
    /\ UNCHANGED <<open, deleting, stored, counters, writer>>

\* The fold starts: it takes the deltas no other fold has locked, and sums
\* them for the namespaces that exist.
TakeDeltas(f) ==
    LET free == deltas \ Locked IN
    /\ folder[f] = IdleFolder
    /\ free # {}
    /\ Folds(f, [taken |-> free, counted |-> {d.ns : d \in free} \cap open])
    /\ UNCHANGED <<open, deleting, stored, counters, writer>>

\* It ends: deltas go as their counters grow.  A new counter needs its
\* namespace, and waits for its deletion.
FoldUsage(f) ==
    LET r == folder[f] IN
    /\ r # IdleFolder
    /\ \A n \in r.counted : usage[n] = None => n \in open \ {deleting}
    /\ deltas' = deltas \ r.taken
    /\ usage' = [n \in Namespace |->
                    IF n \in r.counted THEN Counter(n) + Bytes(r.taken, n) ELSE usage[n]]
    /\ Folds(f, IdleFolder)
    /\ UNCHANGED <<open, deleting, stored, writer>>

\* It fails, as it does when it would insert the counter of a namespace that
\* is gone by now.
FailFold(f) ==
    /\ folder[f] # IdleFolder
    /\ Folds(f, IdleFolder)
    /\ UNCHANGED <<open, deleting, stored, counters, writer>>

----------------------------------------------------------------------------
Next ==
    \/ \E w \in Writer :
          \/ \E op \in {"put", "complete"}, n \in Namespace, k \in Key, s \in Size :
                WriteObject(w, op, n, k, s)
          \/ \E n \in Namespace, s \in Size : WritePart(w, n, s)
          \/ LockTeam(w)
          \/ EnforceQuota(w)
          \/ Refuse(w)
          \/ CommitObject(w)
          \/ CommitPart(w)
          \/ FailWrite(w)
    \/ \E n \in Namespace :
          \/ CreateNamespace(n)
          \/ LockNamespace(n)
          \/ RemoveMultipart(n)
          \/ \E k \in Key : DeleteObject(n, k)
    \/ DeleteNamespace
    \/ FailDelete
    \/ \E f \in Folder : TakeDeltas(f) \/ FoldUsage(f) \/ FailFold(f)

Spec == Init /\ [][Next]_vars

----------------------------------------------------------------------------
(* Properties. *)

Delta == [id : DeltaId, ns : Namespace, bytes : Int]

\* Types; and nothing is left of a namespace that is gone.
TypeOK ==
    /\ open \subseteq Namespace
    /\ deleting \in open \cup {None}
    /\ objects \in [Namespace -> [Key -> Size \cup {0}]]
    /\ part \in [Namespace -> Size \cup {0}]
    /\ completed \subseteq open
    /\ usage \in [Namespace -> Int \cup {None}]
    /\ deltas \subseteq Delta
    /\ writer \in [Writer -> [pc : {"idle", "lockTeam", "enforce", "commit"},
                              op : {"put", "complete", "part", None},
                              ns : Namespace \cup {None}, key : Key \cup {None},
                              size : Size \cup {0}]]
    /\ folder \in [Folder -> [taken : SUBSET Delta, counted : SUBSET Namespace]]
    /\ \A n \in Namespace \ open : Weight(n) = 0 /\ part[n] = 0 /\ usage[n] = None

\* What is counted of a namespace is what its objects weigh, whichever of its
\* deltas are folded, and by however many folds at once.
UsageIsExact == \A n \in open : Counter(n) + Bytes(deltas, n) = Weight(n)

\* The team never stores more than its quota, however its writers and folds
\* overlap, but for the parts of an upload that is completed and not removed:
\* the object made of them was charged in their place.
WithinQuota ==
    SumFunction([n \in Namespace |-> Weight(n)])
        + SumFunctionOnSet(part, Namespace \ completed) <= Limit

\* With everything else that is stored, and not replaced or assembled by the
\* write, it does not fit.
DoesNotFit(r) ==
    LET replaced == IF r.op = "part" THEN part[r.ns] ELSE objects[r.ns][r.key]
        assembled == IF r.op = "complete" THEN part[r.ns] ELSE 0
    IN SumFunction([n \in Namespace |-> Weight(n) + part[n]])
          - replaced - assembled + r.size > Limit

\* A write is refused only if it does not fit.
RefusalsAreJust == [][\A w \in Writer : Refuse(w) => DoesNotFit(writer[w])]_vars
=============================================================================
