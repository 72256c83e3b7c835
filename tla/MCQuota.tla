------------------------------- MODULE MCQuota -------------------------------
(* Quota on a small instance. *)
EXTENDS Quota, TLC

CONSTANTS n1, n2, w1, w2, f1, f2, d1, d2

Interchangeable ==
    Permutations(Namespace) \cup Permutations(Writer) \cup Permutations(Folder)
        \cup Permutations(DeltaId)

\* Three are busy at a time, of writes, folds and a deletion of a namespace;
\* and two, while as many deltas as there are ids wait to be folded.
Busy == {w \in Writer : writer[w] # IdleWriter} \cup {f \in Folder : folder[f] # IdleFolder}
    \cup ({deleting} \ {None})
InScope == Cardinality(Busy) <= IF Cardinality(deltas) = Cardinality(DeltaId) THEN 2 ELSE 3
=============================================================================
