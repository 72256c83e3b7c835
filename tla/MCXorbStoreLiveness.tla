------------------------- MODULE MCXorbStoreLiveness -------------------------
(* XorbStoreLiveness on small instances. *)
EXTENDS XorbStoreLiveness, TLC

CONSTANTS b1, b2, k1, k2, r1, r2, g1, sk1

MCXorbOrder == [x \in (SUBSET Chunk) \ {{}} |-> IF 2 \in x THEN 2 + (IF 1 \in x THEN 1 ELSE 0) ELSE 1]
MCBlobOrder == [b \in Content |-> IF b = b1 THEN 1 ELSE 2]
XorbEach(cs) == {{c} : c \in cs}
OneKey == [p \in Committer \cup Collector |-> sk1]

\* Two contents made of the same chunk, which one of them repeats.
Repeated == b1 :> {1} @@ b2 :> {1}

\* Both requests upload, and one of them deletes, too.
MCNext == LiveNext /\ com'[r1].pc # "release"
MCSpec == LiveInit /\ [][MCNext]_liveVars /\ Fairness
=============================================================================
