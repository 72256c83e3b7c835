---------------------------- MODULE MCXorbStore ----------------------------
(* XorbStore on small instances. *)
EXTENDS XorbStore, FiniteSetsExt, TLC

CONSTANTS b1, b2, b3, k1, k2, r1, r2, g1, g2, sk1, sk2

\* Hashes are ordered by an arbitrary, but fixed, numbering.
MCXorbOrder == [x \in (SUBSET Chunk) \ {{}} |-> FoldSet(LAMBDA c, n : n + 2^c, 0, x)]
MCBlobOrder == [b \in Content |-> CASE b = b1 -> 1 [] b = b2 -> 2 [] OTHER -> 3]

\* All new chunks fit in one xorb, or each takes one of its own.
OneXorb(cs) == IF cs = {} THEN {} ELSE {cs}
XorbEach(cs) == {{c} : c \in cs}

\* Two contents that share a chunk, and one inside another.
Single == b1 :> {1}
Repeated == b1 :> {1} @@ b2 :> {1}
Pair == b1 :> {1, 2} @@ b2 :> {1, 2}
Overlapping == b1 :> {1, 2} @@ b2 :> {2, 3}
Nested == b1 :> {1} @@ b2 :> {1, 2}

Interchangeable == Permutations(Committer) \cup Permutations(Collector)
TwoKeys == [p \in Committer \cup Collector |-> IF p = r2 THEN sk2 ELSE sk1]
OneKey == [p \in Committer \cup Collector |-> sk1]

\* A request that plans again meets the other or a collector, not both.
RetriesMeetOne ==
    \A c \in Committer : com[c].attempt > 1 =>
        \/ \E d \in Committer \ {c} : com[d] = IdleCommit
        \/ \A g \in Collector : col[g] = IdleJob
=============================================================================
