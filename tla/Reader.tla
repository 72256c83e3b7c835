-------------------------------- MODULE Reader --------------------------------
(***************************************************************************)
(* Reading a range of a chunked blob (internal/cas/reader.go): a producer  *)
(* walks the blob's terms and queues a fetch for each run of neighbouring  *)
(* chunks, fetches run at once, and their bytes are served in order.       *)
(* Meanwhile compaction moves the blob's terms to other xorbs, garbage     *)
(* collection deletes the xorbs they were in, commits write some again,    *)
(* stored bytes rot, the blob is collected, and the client goes away.      *)
(*                                                                         *)
(* A lookup in the database and a read of the backend are a step each.  A  *)
(* byte is <<chunk, its place in it>>: a chunk that passes its check is    *)
(* the chunk.                                                              *)
(***************************************************************************)
EXTENDS Integers, SequencesExt, FiniteSetsExt

CONSTANTS
    Holds,      \* the chunks of each xorb, in order
    Size,       \* the bytes of each chunk
    Stored,     \* the xorbs that are stored at first, and used by other blobs too
    Used,       \* the xorbs that are stored at first, and used by this blob
    Blob,       \* its terms at first: [xorb, first, last], in order
    Shared,     \* the xorbs that other blobs come to use, and cease to
    MovesTo,    \* where compaction moves what is used of a xorb: a xorb, or itself
    Ranges,     \* ranges that are read: <<from, to>>
    TermPage,   \* terms a lookup returns (termPage)
    ReadGroup,  \* chunks of a run at most (readGroup, which is in bytes)
    ReadAhead,  \* fetches in flight: the queue's and the one waited for
    MaxRereads, \* lookups made again (maxRereads)
    MaxRot      \* chunks that rot (bounds the model)

VARIABLES
    xorbs,      \* each xorb: its row, its stored bytes, whether others use it
    terms,      \* the blob's terms
    producer,   \* where the producer is
    slots,      \* the fetches queued, in order
    served,     \* the bytes the client has
    ended,      \* how the read ended: "no", "eof" or "failed"
    rot,        \* chunks that rotted
    lost        \* why the read may fail: what it needed was not there

store == <<xorbs, terms, rot>>
reading == <<producer, slots, served, ended>>
vars == <<store, reading, lost>>

Xorb == DOMAIN Holds
Absent == [row |-> "absent", bytes |-> FALSE, rotten |-> {}, damaged |-> FALSE, others |-> FALSE]
Idle == [pc |-> "idle", from |-> 0, to |-> 0, pos |-> 0, page |-> <<>>, todo |-> <<>>,
         group |-> <<>>, rereads |-> 0]

Init ==
    /\ xorbs = [x \in Xorb |->
          IF x \in Stored \cup Used
          THEN [Absent EXCEPT !.row = "live", !.bytes = TRUE, !.others = x \in Stored]
          ELSE Absent]
    /\ terms = Blob
    /\ producer = Idle
    /\ slots = <<>>
    /\ served = <<>>
    /\ ended = "no"
    /\ rot = 0
    /\ lost = FALSE

----------------------------------------------------------------------------
(* Terms, chunks and copies. *)

Total(chunks) == FoldLeft(LAMBDA n, c : n + Size[c], 0, chunks)
Chunks(t) == SubSeq(Holds[t.xorb], t.first, t.last)
TermSize(t) == Total(Chunks(t))
Pos(n) == FoldLeft(LAMBDA p, t : p + TermSize(t), 0, SubSeq(terms, 1, n - 1))
Placed(n) == [pos |-> Pos(n), xorb |-> terms[n].xorb, first |-> terms[n].first, last |-> terms[n].last]

UsedBy(ts) == {ts[n].xorb : n \in DOMAIN ts}
Content == FlattenSeq([n \in DOMAIN Blob |-> Chunks(Blob[n])])
BytesOf(chunk, lo, hi) == [k \in 1..(hi - lo) |-> <<chunk, lo + k>>]
Wanted ==
    LET all == FlattenSeq([n \in DOMAIN Content |-> BytesOf(Content[n], 0, Size[Content[n]])])
    IN SubSeq(all, producer.from + 1, producer.to)

Sound(x, n) == xorbs[x].bytes /\ n \notin xorbs[x].rotten
Copies(chunk) == {c \in UNION {{x} \X DOMAIN Holds[x] : x \in Xorb} : Holds[c[1]][c[2]] = chunk}

\* LocateChunks: the copies of a chunk in live xorbs that are not damaged.
Located(chunk) == {c \in Copies(chunk) : xorbs[c[1]].row = "live" /\ ~xorbs[c[1]].damaged}

\* The xorbs a fetch has located and may still read.
Held == UNION {{loc[1] : loc \in UNION Range(slots[n].found)} : n \in DOMAIN slots}

----------------------------------------------------------------------------
(* What happens to the store meanwhile. *)

Becomes(x, row) == xorbs' = [xorbs EXCEPT ![x] = row]
Unused(x, row) == [row EXCEPT !.row = IF row.others THEN "live" ELSE "unused"]

\* Compaction moves the blob's terms from x to a new xorb, having read each of
\* their chunks from somewhere.
Compact(x) ==
    LET y == MovesTo[x]
        Index(c) == CHOOSE n \in DOMAIN Holds[y] : Holds[y][n] = c
        Moved(t) == [xorb |-> y, first |-> Index(Chunks(t)[1]),
                     last |-> Index(Chunks(t)[1]) + t.last - t.first]
        mine == {n \in DOMAIN terms : terms[n].xorb = x}
    IN /\ x # y /\ mine # {} /\ xorbs[y].row = "absent"
       /\ \A n \in mine : \A c \in Range(Chunks(terms[n])) : \E copy \in Copies(c) : Sound(copy[1], copy[2])
       /\ terms' = [n \in DOMAIN terms |-> IF n \in mine THEN Moved(terms[n]) ELSE terms[n]]
       /\ xorbs' = [xorbs EXCEPT ![x] = Unused(x, @),
                                 ![y] = [Absent EXCEPT !.row = "live", !.bytes = TRUE]]
       /\ UNCHANGED <<rot, reading, lost>>

\* The sweep deletes the bytes of a xorb nothing uses, and then its row.  Its
\* grace is far longer than a fetch takes to read what it has located; but
\* not than a client may take to read.
SweepBytes(x) ==
    /\ xorbs[x].row = "unused" /\ xorbs[x].bytes /\ x \notin Held
    /\ Becomes(x, [xorbs[x] EXCEPT !.bytes = FALSE, !.rotten = {}])
    /\ UNCHANGED <<terms, rot, reading, lost>>

SweepRow(x) ==
    /\ xorbs[x].row = "unused" /\ ~xorbs[x].bytes
    /\ Becomes(x, Absent)
    /\ UNCHANGED <<terms, rot, reading, lost>>

\* Another blob is committed that has the same run of chunks, or the last
\* blob that has it is collected.
Commit(x) ==
    /\ x \in Shared /\ xorbs[x].row \in {"absent", "unused"}
    /\ Becomes(x, [xorbs[x] EXCEPT !.row = "live", !.others = TRUE, !.bytes = TRUE])
    /\ UNCHANGED <<terms, rot, reading, lost>>

Release(x) ==
    /\ x \in Shared /\ xorbs[x].others
    /\ Becomes(x, [xorbs[x] EXCEPT !.others = FALSE,
                                   !.row = IF x \in UsedBy(terms) THEN "live" ELSE "unused"])
    /\ UNCHANGED <<terms, rot, reading, lost>>

\* The blob itself is deleted and collected.
CollectBlob ==
    /\ terms # <<>>
    /\ terms' = <<>>
    /\ xorbs' = [x \in Xorb |-> IF x \in UsedBy(terms) THEN Unused(x, xorbs[x]) ELSE xorbs[x]]
    /\ lost' = TRUE
    /\ UNCHANGED <<rot, reading>>

\* A chunk rots.  If a fetch was about to read it, it may find no other.
Rot(x, n) ==
    /\ rot < MaxRot /\ Sound(x, n)
    /\ rot' = rot + 1
    /\ Becomes(x, [xorbs[x] EXCEPT !.rotten = @ \cup {n}])
    /\ lost' = (lost \/ x \in Held)
    /\ UNCHANGED <<terms, reading>>

----------------------------------------------------------------------------
(* The producer. *)

Produces(p) == producer' = p

Open(from, to) ==
    /\ producer.pc = "idle"
    /\ Produces([Idle EXCEPT !.pc = "lookup", !.from = from, !.to = to, !.pos = from])
    /\ lost' = (terms = <<>>)
    /\ UNCHANGED <<store, slots, served, ended>>

\* BlobTerms: the terms from the one that holds a place, up to the range's end.
LookUp ==
    LET p == producer
        overlapping == {n \in DOMAIN terms : Pos(n) < p.to /\ Pos(n) + TermSize(terms[n]) > p.pos}
        page == IF overlapping = {} THEN <<>>
                ELSE [n \in 1..Min({TermPage, Cardinality(overlapping)}) |-> Placed(Min(overlapping) + n - 1)]
    IN /\ p.pc = "lookup"
       /\ Produces([p EXCEPT !.pc = IF page = <<>> THEN "failing" ELSE "terms", !.page = page])
       /\ UNCHANGED <<store, slots, served, ended, lost>>

\* The parts of a term's chunks that the range wants.
Spans(t) ==
    LET at(n) == t.pos + Total(SubSeq(Holds[t.xorb], t.first, n - 1))
        span(n) == [xorb |-> t.xorb, index |-> n, chunk |-> Holds[t.xorb][n],
                    lo |-> Max({producer.pos, at(n)}) - at(n),
                    hi |-> Min({producer.to, at(n) + Size[Holds[t.xorb][n]]}) - at(n)]
    IN SelectSeq([k \in 1..(t.last - t.first + 1) |-> span(t.first + k - 1)], LAMBDA s : s.lo < s.hi)

\* Mutant of XorbChunks: the terms are not looked up again.
XorbChunksOnce ==
    LET p == producer
        t == Head(p.page)
        after == [p EXCEPT !.page = Tail(p.page)]
    IN /\ p.pc = "terms"
       /\ Produces(IF xorbs[t.xorb].row = "absent" THEN [p EXCEPT !.pc = "failing"]
                   ELSE [after EXCEPT !.pc = "chunks", !.todo = Spans(t)])
       /\ UNCHANGED <<store, slots, served, ended, lost>>

\* XorbChunks of the next term: none if its xorb was collected, and then the
\* terms are looked up again, from where the producer is.
XorbChunks ==
    LET p == producer
        t == Head(p.page)
        after == [p EXCEPT !.page = Tail(p.page)]
    IN /\ p.pc = "terms"
       /\ Produces(IF xorbs[t.xorb].row = "absent"
                   THEN IF p.rereads < MaxRereads
                        THEN [p EXCEPT !.pc = "lookup", !.page = <<>>, !.rereads = @ + 1]
                        ELSE [p EXCEPT !.pc = "failing"]
                   ELSE [after EXCEPT !.pc = "chunks", !.todo = Spans(t)])
       /\ UNCHANGED <<store, slots, served, ended, lost>>

Room == Len(slots) < ReadAhead
Slot(run) == [pc |-> "fetch", run |-> run, missing |-> <<>>, found |-> <<>>]
FailedSlot == [Slot(<<>>) EXCEPT !.pc = "error"]

\* A chunk next to the last one of the group joins it, unless the group is
\* full; else the group is queued for a fetch, and the chunk begins another.
Joins(group, span) ==
    /\ Len(group) < ReadGroup
    /\ group # <<>> => Last(group).xorb = span.xorb /\ Last(group).index + 1 = span.index

GroupChunk ==
    LET p == producer
        span == Head(p.todo)
        joins == Joins(p.group, span)
        pos == p.pos + span.hi - span.lo
        next == IF Len(p.todo) > 1 THEN "chunks"
                ELSE IF pos >= p.to THEN "flush"
                ELSE IF p.page = <<>> THEN "lookup" ELSE "terms"
    IN /\ p.pc = "chunks"
       /\ joins \/ Room
       /\ slots' = IF joins THEN slots ELSE Append(slots, Slot(p.group))
       /\ Produces([p EXCEPT !.pc = next, !.todo = Tail(@), !.pos = pos,
                             !.group = IF joins THEN Append(@, span) ELSE <<span>>])
       /\ UNCHANGED <<store, served, ended, lost>>

\* The last group, or a failure, is queued, and the queue is closed.
CloseQueue ==
    /\ producer.pc \in {"flush", "failing"} /\ Room
    /\ slots' = Append(slots, IF producer.pc = "flush" THEN Slot(producer.group) ELSE FailedSlot)
    /\ Produces([producer EXCEPT !.pc = "closed", !.page = <<>>, !.todo = <<>>, !.group = <<>>])
    /\ UNCHANGED <<store, served, ended, lost>>

----------------------------------------------------------------------------
(* A fetch. *)

Fetches(n, slot) == slots' = [slots EXCEPT ![n] = slot]
Marked(x) == [xorbs[x] EXCEPT !.damaged = xorbs[x].row # "absent"]

\* The run is read in one request, and each chunk checked.
FetchRun(n) ==
    LET run == slots[n].run
        x == run[1].xorb
        bad == SelectSeq(run, LAMBDA s : ~Sound(x, s.index))
    IN /\ slots[n].pc = "fetch"
       /\ Fetches(n, [slots[n] EXCEPT
             !.pc = IF bad = <<>> THEN "ok" ELSE IF xorbs[x].bytes THEN "mark" ELSE "locate",
             !.missing = bad])
       /\ UNCHANGED <<store, producer, served, ended, lost>>

\* MarkXorbDamaged.
MarkDamaged(n) ==
    LET x == slots[n].run[1].xorb
    IN /\ slots[n].pc = "mark"
       /\ Becomes(x, Marked(x))
       /\ Fetches(n, [slots[n] EXCEPT !.pc = "locate"])
       /\ UNCHANGED <<terms, rot, producer, served, ended, lost>>

\* LocateChunks: where else each chunk is.  If a chunk is sound in no other
\* live xorb, the read will fail, as it should.
LocateChunks(n) ==
    LET s == slots[n]
        places(k) == {c \in Located(s.missing[k].chunk) : c[1] # s.run[1].xorb}
    IN /\ s.pc = "locate"
       /\ Fetches(n, [s EXCEPT !.pc = "copy", !.found = [k \in DOMAIN s.missing |-> places(k)]])
       /\ lost' = (lost \/ \E k \in DOMAIN s.missing : \A c \in places(k) : ~Sound(c[1], c[2]))
       /\ UNCHANGED <<store, producer, served, ended>>

\* soundCopy: the next place of the first missing chunk is read.  (The places
\* are in the order of the xorbs' hashes, which is any.)
SoundCopy(n) ==
    LET s == slots[n]
        rest == [s EXCEPT !.missing = Tail(@), !.found = Tail(@)]
    IN /\ s.pc = "copy"
       /\ IF s.found[1] = {}
          THEN Fetches(n, FailedSlot) /\ UNCHANGED xorbs
          ELSE \E c \in s.found[1] :
                  IF Sound(c[1], c[2]) /\ xorbs[c[1]].row # "absent"
                  THEN /\ Fetches(n, IF Len(s.missing) = 1 THEN [rest EXCEPT !.pc = "ok"] ELSE rest)
                       /\ UNCHANGED xorbs
                  ELSE /\ Fetches(n, [s EXCEPT !.found[1] = @ \ {c}])
                       /\ IF xorbs[c[1]].bytes THEN Becomes(c[1], Marked(c[1])) ELSE UNCHANGED xorbs
       /\ UNCHANGED <<terms, rot, producer, served, ended, lost>>

----------------------------------------------------------------------------
(* The client. *)

\* next: the first slot is served, or fails the read.
Serve ==
    /\ ended = "no" /\ slots # <<>>
    /\ LET run == slots[1].run IN
       \/ /\ slots[1].pc = "ok"
          /\ served' = served \o FlattenSeq([k \in DOMAIN run |-> BytesOf(run[k].chunk, run[k].lo, run[k].hi)])
          /\ slots' = Tail(slots)
          /\ UNCHANGED <<producer, ended>>
       \/ /\ slots[1].pc = "error"
          /\ ended' = "failed"
          /\ slots' = <<>>
          /\ producer' = [producer EXCEPT !.pc = "closed"]
          /\ UNCHANGED served
    /\ UNCHANGED <<store, lost>>

\* Mutant of EndOfQueue: the end of the queue is the end of the range.
EndOfQueueAlways ==
    /\ ended = "no" /\ producer.pc = "closed" /\ slots = <<>>
    /\ ended' = "eof"
    /\ UNCHANGED <<store, producer, slots, served, lost>>

\* next, when the queue is closed and empty: the end of the range only if all of it
\* was served.
EndOfQueue ==
    /\ ended = "no" /\ producer.pc = "closed" /\ slots = <<>>
    /\ ended' = IF Len(served) = producer.to - producer.from THEN "eof" ELSE "failed"
    /\ UNCHANGED <<store, producer, slots, served, lost>>

\* The client's context is cancelled: the producer stops, and what it had not
\* queued is not read.
Cancel ==
    /\ producer.pc \notin {"idle", "closed"}
    /\ Produces([producer EXCEPT !.pc = "closed", !.page = <<>>, !.todo = <<>>, !.group = <<>>])
    /\ lost' = TRUE
    /\ UNCHANGED <<store, slots, served, ended>>

\* The client reads another range.
Close ==
    /\ ended # "no"
    /\ producer' = Idle
    /\ slots' = <<>> /\ served' = <<>> /\ ended' = "no" /\ lost' = FALSE
    /\ UNCHANGED store

Next ==
    \/ \E x \in Xorb :
          \/ Compact(x)
          \/ SweepBytes(x)
          \/ SweepRow(x)
          \/ Commit(x)
          \/ Release(x)
          \/ \E n \in DOMAIN Holds[x] : Rot(x, n)
    \/ CollectBlob
    \/ \E r \in Ranges : Open(r[1], r[2])
    \/ LookUp
    \/ XorbChunks
    \/ GroupChunk
    \/ CloseQueue
    \/ \E n \in DOMAIN slots :
          \/ FetchRun(n)
          \/ MarkDamaged(n)
          \/ LocateChunks(n)
          \/ SoundCopy(n)
    \/ Serve
    \/ EndOfQueue
    \/ Cancel
    \/ Close

Spec == Init /\ [][Next]_vars

----------------------------------------------------------------------------
(* Properties. *)

\* Types; and what a term of the blob is in is stored.
TypeOK ==
    /\ xorbs \in [Xorb -> [row : {"absent", "live", "unused"}, bytes : BOOLEAN,
                           rotten : SUBSET (1..3), damaged : BOOLEAN, others : BOOLEAN]]
    /\ \A n \in DOMAIN terms : xorbs[terms[n].xorb].row = "live" /\ xorbs[terms[n].xorb].bytes
    /\ producer.pc \in {"idle", "lookup", "terms", "chunks", "flush", "failing", "closed"}
    /\ producer.rereads \in 0..MaxRereads
    /\ Len(slots) <= ReadAhead
    /\ \A n \in DOMAIN slots : slots[n].pc \in {"fetch", "mark", "locate", "copy", "ok", "error"}
    /\ ended \in {"no", "eof", "failed"} /\ rot \in 0..MaxRot /\ lost \in BOOLEAN

\* What is served is the range from its start, whatever moved, was collected
\* or was read from another xorb meanwhile; and a read ends as if whole only
\* when it is whole, cancelled or not.
ServesTheRange ==
    /\ IsPrefix(served, Wanted)
    /\ ended = "eof" => served = Wanted

\* A read fails only if its client went away, the blob was collected, or some
\* chunk of it was, when it was looked for, in no other live xorb whose copy is
\* sound.
ReadsFailOnlyIfLost == ended = "failed" => lost
=============================================================================
