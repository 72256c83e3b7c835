---------------------------- MODULE MCCompaction -----------------------------
(***************************************************************************)
(* Compaction on a small instance, in two scopes.  Where a stored chunk    *)
(* may rot, or did, one loop at a time runs every job, and compacts beside *)
(* uploads that replace each other.  Where none is damaged nor will be,    *)
(* two loops sweep blobs and compact, beside uploads and links.            *)
(***************************************************************************)
EXTENDS MCXorbStore

Damaged == \E x \in Xorb : bytes[x].bad # {} \/ xorbs[x].damaged
Busy(g) == col[g].pc # "idle"
Sweeps(g) == col[g].pc \in {"detach", "deleteBytes", "deleteRow", "reclaim"}
Compacts(g) == Busy(g) /\ ~Sweeps(g)
Quiet == \A r \in Committer : com[r] = IdleCommit
Links(r) == com[r].pc = "claimLive"
Together(g, h) == g # h /\ Busy(g) /\ Busy(h)

\* A request, a blob sweep and a compaction, in their transactions.
Transact(g, h) ==
    /\ Moving(g) \/ Moving(h)
    /\ ~(Compacts(g) /\ Compacts(h))
    /\ \A r \in Committer : com[r].pc \notin {"placement", "locate", "write"} /\ ~Links(r)

\* Two loops meet a request in transactions only.
MovesOnly ==
    /\ \A g \in Collector : Sweeps(g) => col[g].pc = "detach"
    /\ \A g, h \in Collector : Together(g, h) => Quiet \/ Transact(g, h)

\* A compaction meets a request, and sweeps meet nobody.  A damaged xorb is
\* followed while it is in use.
DamageOnly ==
    /\ \A x \in Xorb : bytes[x].bad # {} => xorbs[x].ref > 0
    /\ \A r \in Committer : ~Links(r)
    /\ \A g, h \in Collector : ~Together(g, h)
    /\ \A g \in Collector : Sweeps(g) => Quiet

InScope == IF rotted = MaxRot /\ ~Damaged THEN MovesOnly ELSE DamageOnly

MCInit == Empty /\ rotted \in {0, MaxRot}
MCSpec == MCInit /\ [][Next]_vars
=============================================================================
