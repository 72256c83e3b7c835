--------------------------- MODULE QuotaInvariant ----------------------------
(***************************************************************************)
(* The inductive invariant behind Quota: what the locks of writers, folds  *)
(* and deletions keep true from one statement of theirs to the next.       *)
(***************************************************************************)
EXTENDS Quota

\* A writer's namespace is open until it ends, and it knows its key.
WritersHaveSubjects ==
    \A w \in Writer :
        IF writer[w].pc = "idle" THEN writer[w] = IdleWriter
        ELSE /\ writer[w].ns \in open
             /\ writer[w].op \in {"put", "complete", "part"}
             /\ writer[w].size \in Size
             /\ writer[w].op # "part" => writer[w].key \in Key

\* The team's row is locked by one writer at most.
OneHoldsTheTeam == \A v, w \in TeamHolders : v = w

\* What a fold has taken is still there, no other fold has it, and it is all
\* counted but for namespaces that are gone.
FoldsKeepTheirDeltas ==
    /\ \A f \in Folder : folder[f].taken \subseteq deltas
    /\ \A f, g \in Folder : f # g => folder[f].taken \cap folder[g].taken = {}
    /\ \A f \in Folder : \A d \in folder[f].taken : d.ns \in open => d.ns \in folder[f].counted

\* Nothing is stored, or written, in a namespace whose deletion has looked.
DeletedIsEmpty ==
    deleting # None => Weight(deleting) = 0 /\ Writing(deleting) = {}

\* What a writer was promised: it fits until it commits.
PromisesHold == \A w \in Writer : writer[w].pc = "commit" => Fits(writer[w])

IInv ==
    /\ TypeOK
    /\ IsFiniteSet(deltas)
    /\ WritersHaveSubjects
    /\ OneHoldsTheTeam
    /\ FoldsKeepTheirDeltas
    /\ DeletedIsEmpty
    /\ UsageIsExact
    /\ PromisesHold
    /\ WithinQuota
=============================================================================
