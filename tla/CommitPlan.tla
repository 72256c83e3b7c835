----------------------------- MODULE CommitPlan ------------------------------
(***************************************************************************)
(* What one commit writes (internal/cas/plan.go), in detail: which runs of *)
(* its content's chunks it reuses from stored xorbs, how it packs the rest *)
(* into new ones, the terms of the blob, the decoys it writes in place of  *)
(* what it reuses from others, and how all of it is sent and claimed.      *)
(*                                                                         *)
(* Nobody else is there: what happens to a plan that goes stale meanwhile  *)
(* is XorbStore's.  A xorb is the sequence of its chunks, and so is its    *)
(* hash.                                                                   *)
(***************************************************************************)
EXTENDS Integers, FiniteSets, SequencesExt

CONSTANTS
    Size,           \* the size of each chunk
    Contents,       \* contents that are uploaded: sequences of chunks
    Stored,         \* xorbs that may be live, in hash order
    Orphan,         \* xorbs that may be in the backend without a row
    MinDedupRun, MaxXorbChunks, MaxXorbBytes,
    Overhead,       \* chunkOverhead
    XorbUploads,
    CommitAttempts

VARIABLES
    content,        \* the chunks of the staged content
    placement,      \* whether the blob is stored, and held by the namespace
    held,           \* the terms that the namespace's other blobs have
    rows,           \* the live xorbs: what their rows say of their chunks
    bytes,          \* the backend's xorbs
    decoys,         \* the scratch objects in the backend
    plan,           \* the commitPlan
    written,        \* what carryOut did so far
    sending,        \* the objects that are being uploaded
    commit          \* where the commit is

vars == <<content, placement, held, rows, bytes, decoys, plan, written, sending, commit>>

Chunk == DOMAIN Size
Placement == {"new", "others", "held"}
NoPlan == [attach |-> FALSE, route |-> <<>>, xorbs |-> <<>>, decoys |-> <<>>, terms |-> <<>>]
\* For each new xorb, the chunks recorded and whether its bytes existed; how
\* many decoys were opened; the objects being filled, by their numbers.
NothingWritten == [at |-> 1, xorbs |-> <<>>, existed |-> {}, decoys |-> 0, xorb |-> 0, decoy |-> 0]
Planning(attempt) == [pc |-> "plan", attempt |-> attempt, cancelled |-> FALSE]

Term(pos, xorb, first, last, size) ==
    [pos |-> pos, xorb |-> xorb, first |-> first, last |-> last, size |-> size]

\* A term of another blob covers one or more chunks of a xorb from its first.
Init ==
    /\ content \in Contents
    /\ placement \in Placement
    /\ \E live \in SUBSET ToSet(Stored) :
         /\ rows = [x \in live |-> x]
         /\ held \in SUBSET [xorb : live, last : {2}]
         /\ \E left \in SUBSET (Orphan \ live) : bytes = [x \in live \cup left |-> x]
    /\ placement # "new" => rows = <<>>
    /\ decoys = {}
    /\ plan = NoPlan
    /\ written = NothingWritten
    /\ sending = {}
    /\ commit = Planning(1)

----------------------------------------------------------------------------
(* The plan. *)

Indexes(s) == [i \in DOMAIN s |-> i]
SizeOf(indexes) == FoldLeft(LAMBDA n, i : n + Size[content[i]], 0, indexes)

Locations(chunk) ==
    {l \in [xorb : DOMAIN rows, index : 1..MaxXorbChunks] :
        l.index \in DOMAIN rows[l.xorb] /\ rows[l.xorb][l.index] = chunk}

HashOrder(xorb) == CHOOSE i \in DOMAIN Stored : Stored[i] = xorb
FirstOf(locations) ==
    CHOOSE l \in locations : \A m \in locations :
        \/ HashOrder(l.xorb) < HashOrder(m.xorb)
        \/ l.xorb = m.xorb /\ l.index <= m.index

\* Where the n-th chunk after a location would be.
After(l, n) == [l EXCEPT !.index = @ + n]

\* The first location whose next chunk can follow, if there is one.
StartAt(i) ==
    LET here == Locations(content[i])
        followed == {l \in here : i < Len(content) /\ After(l, 1) \in Locations(content[i + 1])}
    IN FirstOf(IF followed = {} THEN here ELSE followed)

LongEnough(run) ==
    LET n == run.last - run.first + 1
    IN n >= MinDedupRun \/ n = Len(content)

\* Mutant of Follows: a run goes on to the end of its xorb, whatever is there.
FollowsToTheEnd(run, i) == run.at.index + i - run.first \in DOMAIN rows[run.at.xorb]

\* Whether a run that ends before chunk i goes on with it.
Follows(run, i) == After(run.at, i - run.first) \in Locations(content[i])

\* reusableRuns, a chunk at a time: the runs that are kept, and the one that
\* is open (none, or one).
NextChunk(acc, i) ==
    LET starts == IF Locations(content[i]) = {} THEN <<>>
                  ELSE <<[first |-> i, last |-> i, at |-> StartAt(i)]>>
    IN IF acc.open # <<>> /\ Follows(acc.open[1], i)
       THEN [acc EXCEPT !.open[1].last = i]
       ELSE [kept |-> acc.kept \o SelectSeq(acc.open, LongEnough), open |-> starts]

ReusableRuns ==
    LET scanned == FoldLeft(NextChunk, [kept |-> <<>>, open |-> <<>>], Indexes(content))
    IN scanned.kept \o SelectSeq(scanned.open, LongEnough)

HeldInNamespace(run) ==
    \E t \in held : t.xorb = run.at.xorb /\ run.at.index + run.last - run.first <= t.last

\* Whether chunk i can be added to a xorb.
FitsIn(group, i) ==
    LET grown == Append(group, i)
    IN /\ Len(grown) <= MaxXorbChunks
       /\ SizeOf(grown) + Len(grown) * Overhead <= MaxXorbBytes

GroupForXorbs(indexes) ==
    LET Grow(groups, i) ==
            IF groups # <<>> /\ FitsIn(Last(groups), i)
            THEN Append(Front(groups), Append(Last(groups), i))
            ELSE Append(groups, <<i>>)
    IN FoldLeft(Grow, <<>>, indexes)

ChunksAt(indexes) == [n \in DOMAIN indexes |-> content[indexes[n]]]

\* Consecutive chunks at consecutive places in one xorb are one term.
TermsFrom(places) ==
    LET Extend(terms, i) ==
            LET l == places[i]
                size == Size[content[i]]
                pos == IF terms = <<>> THEN 0 ELSE Last(terms).pos + Last(terms).size
                grown == [Last(terms) EXCEPT !.last = l.index, !.size = @ + size]
            IN IF terms # <<>> /\ Last(terms).xorb = l.xorb /\ Last(terms).last + 1 = l.index
               THEN Append(Front(terms), grown)
               ELSE Append(terms, Term(pos, l.xorb, l.index, l.index, size))
    IN FoldLeft(Extend, <<>>, Indexes(content))

PlanOfNew ==
    LET runs == ReusableRuns
        InRun(i) == {n \in DOMAIN runs : i \in runs[n].first..runs[n].last}
        RunOf(i) == runs[CHOOSE n \in InRun(i) : TRUE]
        route == [i \in DOMAIN content |->
                    IF InRun(i) = {} THEN "new"
                    ELSE IF HeldInNamespace(RunOf(i)) THEN "reuse" ELSE "decoy"]
        Routed(r) == SelectSeq(Indexes(content), LAMBDA i : route[i] = r)
        groups == GroupForXorbs(Routed("new"))
        Place(i) ==
            IF route[i] = "new"
            THEN LET x == CHOOSE x \in DOMAIN groups : i \in ToSet(groups[x])
                 IN [xorb |-> ChunksAt(groups[x]),
                     index |-> CHOOSE n \in DOMAIN groups[x] : groups[x][n] = i]
            ELSE After(RunOf(i).at, i - RunOf(i).first)
    IN [attach |-> TRUE, route |-> route, xorbs |-> groups,
        decoys |-> GroupForXorbs(Routed("decoy")),
        terms |-> TermsFrom([i \in DOMAIN content |-> Place(i)])]

\* Content that is stored for others is written in full, and thrown away.
PlanOfStored ==
    [NoPlan EXCEPT !.route = [i \in DOMAIN content |-> "decoy"],
                   !.decoys = GroupForXorbs(Indexes(content))]

Writes(p) == p.xorbs # <<>> \/ p.decoys # <<>>

Plan ==
    /\ commit.pc = "plan"
    /\ plan' = CASE content = <<>> -> [NoPlan EXCEPT !.attach = TRUE]
                 [] placement = "held" -> NoPlan
                 [] placement = "others" -> PlanOfStored
                 [] OTHER -> PlanOfNew
    /\ written' = [NothingWritten EXCEPT !.xorbs = [x \in DOMAIN plan'.xorbs |-> <<>>]]
    /\ commit' = [commit EXCEPT !.pc = IF Writes(plan') THEN "write" ELSE "claim"]
    /\ UNCHANGED <<content, placement, held, rows, bytes, decoys, sending>>

----------------------------------------------------------------------------
(* Carrying it out.  New xorbs and decoys are filled a chunk at a time, one  *)
(* of each at once, and sent when they are full, XorbUploads at a time.      *)

Xorb(x) == [kind |-> "xorb", n |-> x]
Decoy(d) == [kind |-> "decoy", n |-> d]
MaySend == Cardinality(sending) < XorbUploads

GroupOf(groups, i) == CHOOSE n \in DOMAIN groups : i \in ToSet(groups[n])

Skip ==
    /\ plan.route[written.at] = "reuse"
    /\ written' = [written EXCEPT !.at = @ + 1]
    /\ UNCHANGED sending

\* A chunk goes into its xorb, and the one before it, now full, is sent.
FillXorb ==
    LET x == GroupOf(plan.xorbs, written.at)
        full == written.xorb \notin {0, x}
    IN /\ plan.route[written.at] = "new"
       /\ full => MaySend
       /\ sending' = sending \cup (IF full THEN {Xorb(written.xorb)} ELSE {})
       /\ written' = [written EXCEPT !.at = @ + 1, !.xorb = x,
                                     !.xorbs[x] = Append(@, content[written.at])]

FillDecoy ==
    LET d == GroupOf(plan.decoys, written.at)
        full == written.decoy \notin {0, d}
    IN /\ plan.route[written.at] = "decoy"
       /\ full => MaySend
       /\ sending' = sending \cup (IF full THEN {Decoy(written.decoy)} ELSE {})
       /\ written' = [written EXCEPT !.at = @ + 1, !.decoy = d, !.decoys = Max({@, d})]

WriteChunk ==
    /\ commit.pc = "write" /\ ~commit.cancelled
    /\ written.at <= Len(content)
    /\ Skip \/ FillXorb \/ FillDecoy
    /\ UNCHANGED <<content, placement, held, rows, bytes, decoys, plan, commit>>

\* What is still open is sent, the xorb before the decoy, unless something
\* failed already.
SendLast ==
    /\ commit.pc = "write" /\ ~commit.cancelled
    /\ written.at > Len(content)
    /\ MaySend
    /\ \/ /\ written.xorb # 0
          /\ sending' = sending \cup {Xorb(written.xorb)}
          /\ written' = [written EXCEPT !.xorb = 0]
       \/ /\ written.xorb = 0 /\ written.decoy # 0
          /\ sending' = sending \cup {Decoy(written.decoy)}
          /\ written' = [written EXCEPT !.decoy = 0]
    /\ UNCHANGED <<content, placement, held, rows, bytes, decoys, plan, commit>>

EndWrites ==
    /\ commit.pc = "write"
    /\ \/ commit.cancelled
       \/ written.at > Len(content) /\ written.xorb = 0 /\ written.decoy = 0
    /\ commit' = [commit EXCEPT !.pc = "wait"]
    /\ UNCHANGED <<content, placement, held, rows, bytes, decoys, plan, written, sending>>

\* PutOnce leaves a xorb that is there as it is; decoys have keys of their own.
Arrives(object) ==
    LET name == ChunksAt(plan.xorbs[object.n]) IN
    IF object.kind = "decoy"
    THEN decoys' = decoys \cup {object.n} /\ UNCHANGED <<bytes, written>>
    ELSE /\ bytes' = bytes @@ (name :> written.xorbs[object.n])
         /\ written' = IF name \in DOMAIN bytes
                       THEN [written EXCEPT !.existed = @ \cup {object.n}] ELSE written
         /\ UNCHANGED decoys

Sent(object) ==
    /\ Arrives(object)
    /\ sending' = sending \ {object}
    /\ UNCHANGED <<content, placement, held, rows, plan, commit>>

\* An upload that fails may have arrived all the same.  The others are
\* cancelled.
SendFails(object) ==
    /\ Arrives(object) \/ UNCHANGED <<bytes, decoys, written>>
    /\ sending' = sending \ {object}
    /\ commit' = [commit EXCEPT !.cancelled = TRUE]
    /\ UNCHANGED <<content, placement, held, rows, plan>>

\* The client goes, or what is read from staging is not what was staged.
Interrupt ==
    /\ commit.pc \in {"write", "wait"} /\ ~commit.cancelled
    /\ commit' = [commit EXCEPT !.cancelled = TRUE]
    /\ UNCHANGED <<content, placement, held, rows, bytes, decoys, plan, written, sending>>

\* Mutant of Sending: a failure returns while an upload is under way.
SendingUnlessCancelled == sending # {} /\ ~commit.cancelled

\* What carryOut waits for before it returns.
Sending == sending # {}

Discard == decoys' = decoys \ (1..written.decoys)

CarriedOut ==
    /\ commit.pc = "wait" /\ ~Sending
    /\ IF commit.cancelled
       THEN commit' = [commit EXCEPT !.pc = "failed"] /\ Discard
       ELSE commit' = [commit EXCEPT !.pc = "claim"] /\ UNCHANGED decoys
    /\ UNCHANGED <<content, placement, held, rows, bytes, plan, written, sending>>

----------------------------------------------------------------------------
(* The transaction, as far as it claims xorbs (AttachTerms). *)

XorbsUsed == {t.xorb : t \in ToSet(plan.terms)}

\* The xorb as this commit wrote it, if it did.  Of two with one hash, the
\* map from hashes holds the last.
Mine(x) == {n \in DOMAIN plan.xorbs : ChunksAt(plan.xorbs[n]) = x}

Fresh(x) == x \notin DOMAIN rows
Discards(x) == Fresh(x) /\ Mine(x) # {} /\ Max(Mine(x)) \in written.existed
ClaimFails(x) == Fresh(x) /\ (Mine(x) = {} \/ Discards(x) \/ x \notin DOMAIN bytes)

Claim ==
    /\ commit.pc = "claim"
    /\ \A x \in XorbsUsed : ~ClaimFails(x)
    /\ rows' = rows @@ [x \in {y \in XorbsUsed : Fresh(y)} |-> written.xorbs[Max(Mine(x))]]
    /\ commit' = [commit EXCEPT !.pc = "done"]
    /\ Discard
    /\ UNCHANGED <<content, placement, held, bytes, plan, written, sending>>

\* Bytes with no row are deleted, and the commit starts again, with their
\* deletion for all that is left of the attempt.
Retry ==
    /\ commit.pc = "claim"
    /\ \E x \in XorbsUsed :
         /\ ClaimFails(x)
         /\ bytes' = Restrict(bytes, DOMAIN bytes \ (IF Discards(x) THEN {x} ELSE {}))
    /\ commit' = IF commit.attempt < CommitAttempts
                 THEN Planning(commit.attempt + 1) ELSE [commit EXCEPT !.pc = "stale"]
    /\ Discard
    /\ UNCHANGED <<content, placement, held, rows, plan, written, sending>>

FailClaim ==
    /\ commit.pc = "claim"
    /\ commit' = [commit EXCEPT !.pc = "failed"]
    /\ Discard
    /\ UNCHANGED <<content, placement, held, rows, bytes, plan, written, sending>>

Ended == commit.pc \in {"done", "failed", "stale"}
Done == Ended /\ sending = {} /\ UNCHANGED vars

Next ==
    \/ Plan \/ WriteChunk \/ SendLast \/ EndWrites
    \/ \E object \in sending : Sent(object) \/ SendFails(object)
    \/ Interrupt \/ CarriedOut \/ Claim \/ Retry \/ FailClaim
    \/ Done

Spec == Init /\ [][Next]_vars

----------------------------------------------------------------------------
(* Properties. *)

TypeOK ==
    /\ content \in Contents
    /\ \A x \in DOMAIN bytes : bytes[x] \in Seq(Chunk)
    /\ commit.pc \in {"plan", "write", "wait", "claim", "done", "failed", "stale"}
    /\ commit.attempt \in 1..CommitAttempts
    /\ Cardinality(sending) <= XorbUploads
    /\ written.at \in 1..Len(content) + 1
    /\ \A x \in DOMAIN plan.xorbs : SizeOf(plan.xorbs[x]) + Len(plan.xorbs[x]) * Overhead <= MaxXorbBytes

\* The terms of a plan, read in order, are the content from its first chunk to
\* its last, and each has the place and size that say so.  Every xorb they
\* name is live or one the plan fills, within the limits of a xorb, and what
\* is reused is reused in runs that are long enough (plan.go:61, plan.go:152).
TermsSpellContent ==
    LET terms == plan.terms
        Spelt(t) == SubSeq(t.xorb, t.first, t.last)
        new == {ChunksAt(plan.xorbs[n]) : n \in DOMAIN plan.xorbs}
        Fits(x) == /\ Len(x) <= MaxXorbChunks
                   /\ FoldLeft(LAMBDA n, c : n + Size[c] + Overhead, 0, x) <= MaxXorbBytes
    IN commit.pc # "plan" /\ plan.attach =>
        /\ FlattenSeq([n \in DOMAIN terms |-> Spelt(terms[n])]) = content
        /\ \A n \in DOMAIN terms :
             LET t == terms[n] IN
             /\ t.pos = FoldLeft(LAMBDA p, u : p + u.size, 0, SubSeq(terms, 1, n - 1))
             /\ t.size = FoldLeft(LAMBDA p, c : p + Size[c], 0, Spelt(t))
             /\ t.xorb \in DOMAIN rows \cup new
             /\ t.xorb \notin new => t.last - t.first + 1 >= MinDedupRun \/ Len(terms) = 1
        /\ \A x \in new : Fits(x)

\* An upload that succeeds leaves every xorb its terms name in the backend,
\* whole, with a row that describes it; one that ends in any way leaves no
\* decoy behind; and what it did not write is in runs its own namespace holds,
\* so that it takes as long whatever others store (plan.go:74).
CommitsAreWhole ==
    /\ commit.pc = "done" =>
         \A x \in XorbsUsed : x \in DOMAIN rows /\ rows[x] = x /\ x \in DOMAIN bytes /\ bytes[x] = x
    /\ Ended => decoys = {}
    /\ commit.pc \in {"claim", "done"} /\ placement # "held" =>
         \A i \in DOMAIN content :
            \/ \E n \in DOMAIN plan.xorbs : i \in ToSet(plan.xorbs[n])
            \/ \E n \in DOMAIN plan.decoys : i \in ToSet(plan.decoys[n])
            \/ \E t \in held, n \in 1..2 : t.xorb[n] = content[i]

\* "Bytes this caller did not write" are what a claim deletes, "and a retry
\* writes its own" (xorb.go:259): when nobody else is there, a commit finds
\* its plan stale once at most, and does not give up.
RetriesWriteTheirOwn == commit.pc # "stale"
=============================================================================
