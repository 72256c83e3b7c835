------------------------- MODULE XorbStoreLiveness -------------------------
(***************************************************************************)
(* What XorbStore eventually does, with requests that may fail at any     *)
(* point and any number of times, and background jobs that fail at most    *)
(* MaxFailures times: a sweep that fails is tried again on the next pass,  *)
(* and does not fail every time.                                           *)
(***************************************************************************)
EXTENDS XorbStore

CONSTANT MaxFailures    \* how many jobs fail (bounds the model)
ASSUME FailureAssumption == MaxFailures \in Nat

VARIABLE failures
liveVars == <<vars, failures>>

LiveInit == Init /\ failures = 0

LiveNext ==
    \/ Steps /\ UNCHANGED failures
    \/ /\ failures < MaxFailures
       /\ \E g \in Collector : FailJob(g)
       /\ failures' = failures + 1

\* Requests and jobs are goroutines that run until they are done.  Postgres
\* grants a lock in the order it was asked for, so a waiter is not passed by
\* forever, and ends deadlocks.  The collectors loop forever and take their
\* candidates oldest first, so each one is picked in time.
Fairness ==
    /\ \A c \in Committer : SF_vars(CommitStep(c)) /\ WF_vars(VictimCommit(c))
    /\ \A g \in Collector :
          /\ SF_vars(JobStep(g))
          /\ \A b \in Content : SF_vars(PickBlob(g, b))
          /\ \A x \in Xorb : SF_vars(PickXorb(g, x) \/ ClaimOrphan(g, x))

LiveSpec == LiveInit /\ [][LiveNext]_liveVars /\ Fairness

\* No request waits, or plans again, forever.
RequestsEnd == \A c \in Committer : com[c].pc # "idle" ~> com[c].pc = "idle"

\* Something keeps using x, or may: a term, or the plan of a request or a move.
Planned(x) ==
    \/ BlobsOn(x) # {}
    \/ \E c \in Committer : x \in XorbsIn(com[c].plan) \cup com[c].new
    \/ \E g \in Collector : x = col[g].live
Wanted(b) == Referenced(b) \/ \E c \in Committer : com[c].content = b

\* Nothing is leaked: a blob row no key points at, and a xorb's row and bytes
\* that no term uses, are collected in the end, unless they are used again,
\* and so are bytes a failed commit, sweep or compaction left with no row.
GarbageIsCollected ==
    /\ \A b \in Content : []<>Wanted(b) \/ <>[](~blobs[b].row)
    /\ \A x \in Xorb : []<>Planned(x) \/ <>[](~xorbs[x].row /\ ~bytes[x].there)
=============================================================================
