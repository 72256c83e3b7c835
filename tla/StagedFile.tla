------------------------------ MODULE StagedFile -----------------------------
(***************************************************************************)
(* A staging file under encryption (internal/cas/crypt.go, sealedWriter    *)
(* and sealedReader): what is staged is sealed in segments of one size,    *)
(* the last of them as the last.  A writer writes pieces of any length,    *)
(* and may crash; the file may lose bytes, its last or others, or have two *)
(* runs of them swapped or one damaged; a reader reads it once more from   *)
(* its start.                                                              *)
(*                                                                         *)
(* A byte of the file is of a segment, and says at which place of it; a    *)
(* segment opens only as the one it was sealed as, and whole.              *)
(***************************************************************************)
EXTENDS Integers, SequencesExt

CONSTANTS
    Segment,    \* bytes of content in a full segment (stagingSegment)
    Longest     \* bytes staged at most (bounds the model)

VARIABLES
    written,    \* bytes the writer was given: their number (they are 1, 2, ...)
    sealed,     \* segments it has sealed
    file,       \* the bytes of the file
    writer,     \* "writing", "closed" or "crashed"
    harmed,     \* whether the file was harmed since
    opened      \* the reader: where it is, what it has read, and how it ended

vars == <<written, sealed, file, writer, harmed, opened>>

NoReader == [pc |-> "idle", at |-> 1, segment |-> 0, content |-> <<>>]

Init ==
    /\ written = 0
    /\ sealed = 0
    /\ file = <<>>
    /\ writer = "writing"
    /\ harmed = FALSE
    /\ opened = NoReader

----------------------------------------------------------------------------
(* Segments. *)

\* The bytes of a sealed segment: number n, its content from one byte up to
\* another, and a tag, each byte with its place among them.
Sealed(n, last, from, to) ==
    [k \in 1..(to - from + 2) |->
        [n |-> n, last |-> last, from |-> from, to |-> to, place |-> k, sound |-> TRUE]]

\* Mutant of Opens: a nonce does not say whether the segment is the last.
OpensNotAsLast(bytes, n, last) ==
    /\ bytes # <<>>
    /\ LET b == bytes[1] IN b.n = n /\ bytes = Sealed(n, b.last, b.from, b.to)

\* A nonce says the segment's number and whether it is the last: bytes that
\* are not, in their order, one whole segment sealed so do not open.
Opens(bytes, n, last) ==
    /\ bytes # <<>>
    /\ LET b == bytes[1] IN b.n = n /\ b.last = last /\ bytes = Sealed(n, last, b.from, b.to)

Content(bytes) == [k \in 1..(Len(bytes) - 1) |-> bytes[1].from + k - 1]

----------------------------------------------------------------------------
(* Writing. *)

\* Bytes that are not sealed yet (len(w.buf)).
Buffered == written - sealed * Segment

\* seal, of the bytes that wait for it.
Seal(last) ==
    /\ file' = file \o Sealed(sealed, last, sealed * Segment + 1, written)
    /\ sealed' = sealed + 1

\* Write, a turn of its loop: a full segment is sealed once more bytes follow
\* it, and n bytes are taken.
Write(n) ==
    LET full == Buffered = Segment IN
    /\ writer = "writing"
    /\ written + n <= Longest
    /\ n <= IF full THEN Segment ELSE Segment - Buffered
    /\ IF full THEN Seal(FALSE) ELSE UNCHANGED <<file, sealed>>
    /\ written' = written + n
    /\ UNCHANGED <<writer, harmed, opened>>

\* Close seals what is left, if only an empty segment, as the last.
Close ==
    /\ writer = "writing"
    /\ Seal(TRUE)
    /\ writer' = "closed"
    /\ UNCHANGED <<written, harmed, opened>>

\* The instance crashes, or gives up, and what it had sealed is left.
Crash ==
    /\ writer = "writing"
    /\ writer' = "crashed"
    /\ UNCHANGED <<written, sealed, file, harmed, opened>>

----------------------------------------------------------------------------
(* What can happen to a file. *)

Harm(bytes) ==
    /\ writer # "writing" /\ ~harmed /\ opened.pc = "idle" /\ bytes # file
    /\ harmed' = TRUE
    /\ file' = bytes
    /\ UNCHANGED <<written, sealed, writer, opened>>

Run(from, to) == SubSeq(file, from + 1, to)

\* Bytes are lost, at the end or before it.
Lose == \E i, j \in 0..Len(file) : i < j /\ Harm(Run(0, i) \o Run(j, Len(file)))

\* Two runs of bytes, as two segments, change places.
Swap ==
    \E i, j, k \in 0..Len(file) :
        i < j /\ j < k /\ Harm(Run(0, i) \o Run(j, k) \o Run(i, j) \o Run(k, Len(file)))

Damage == \E n \in DOMAIN file : Harm([file EXCEPT ![n].sound = FALSE])

----------------------------------------------------------------------------
(* Reading. *)

Open ==
    /\ writer # "writing" /\ opened.pc = "idle"
    /\ opened' = [opened EXCEPT !.pc = "reading"]
    /\ UNCHANGED <<written, sealed, file, writer, harmed>>

\* next: a full segment's worth of the file, or what is left of it, which is
\* the last if nothing follows it.
ReadSegment ==
    LET bytes == SubSeq(file, opened.at, Min({opened.at + Segment, Len(file)}))
        last == opened.at + Len(bytes) > Len(file)
    IN /\ opened.pc = "reading"
       /\ opened' =
            IF Opens(bytes, opened.segment, last)
            THEN [pc |-> IF last THEN "eof" ELSE "reading", at |-> opened.at + Len(bytes),
                  segment |-> opened.segment + 1, content |-> opened.content \o Content(bytes)]
            ELSE [opened EXCEPT !.pc = "failed"]
       /\ UNCHANGED <<written, sealed, file, writer, harmed>>

\* The file is discarded, and another is staged.
Discard ==
    /\ opened.pc \in {"eof", "failed"}
    /\ written' = 0 /\ sealed' = 0 /\ file' = <<>> /\ writer' = "writing" /\ harmed' = FALSE
    /\ opened' = NoReader

Next ==
    \/ \E n \in 1..Segment : Write(n)
    \/ Close
    \/ Crash
    \/ Lose
    \/ Swap
    \/ Damage
    \/ Open
    \/ ReadSegment
    \/ Discard

Spec == Init /\ [][Next]_vars

----------------------------------------------------------------------------
(* Properties. *)

\* Types; and the file holds what was sealed of it, or less, in some order.
TypeOK ==
    /\ written \in 0..Longest /\ sealed \in 0..Longest + 1
    /\ writer \in {"writing", "closed", "crashed"} /\ harmed \in BOOLEAN
    /\ opened.pc \in {"idle", "reading", "eof", "failed"}
    /\ opened.at \in 1..Len(file) + 1
    /\ Len(file) <= written + sealed

\* A staging file is read to its end only if its writer closed it and it is as
\* the writer left it, and then what is read is what was written, whatever its
\* length; such a file is never refused.  Before its end, a reader has the
\* content's first segments.
StagedContentIsWhole ==
    /\ IsPrefix(opened.content, [k \in 1..written |-> k])
    /\ opened.pc = "eof" => writer = "closed" /\ ~harmed /\ Len(opened.content) = written
    /\ opened.pc = "failed" => writer = "crashed" \/ harmed

----------------------------------------------------------------------------
(* What the proofs rest on. *)

StagedAssumption == Segment \in Nat \ {0} /\ Longest \in Nat

StagedByte == [n : Nat, last : BOOLEAN, from : Nat, to : Nat, place : Nat, sound : BOOLEAN]
StagedTyped ==
    /\ written \in Nat /\ sealed \in Nat
    /\ file \in Seq(StagedByte)
    /\ opened \in [pc : {"idle", "reading", "eof", "failed"}, at : Nat, segment : Nat, content : Seq(Nat)]

\* The writer's buffer holds at most a segment; its last one was closed over it.
BufferFits ==
    LET n == IF writer = "closed" THEN sealed - 1 ELSE sealed
    IN n >= 0 /\ n * Segment <= written /\ written <= (n + 1) * Segment

\* A byte as it was sealed, but for damage: only the segment sealed at Close is
\* the last.
WasSealed(b) ==
    /\ b.n < sealed
    /\ b.last <=> writer = "closed" /\ b.n = sealed - 1
    /\ b.from = b.n * Segment + 1
    /\ b.to = IF b.last THEN written ELSE (b.n + 1) * Segment
    /\ b.to <= written
    /\ b.place \in 1..(b.to - b.from + 2)
BytesWereSealed == \A i \in DOMAIN file : WasSealed(file[i])

\* The first m bytes are as they were sealed, and where.
InPlace(m) == \A i \in 1..m : file[i].n * (Segment + 1) + file[i].place = i /\ file[i].sound
Whole ==
    /\ InPlace(Len(file))
    /\ Len(file) = sealed + IF writer = "closed" THEN written ELSE sealed * Segment
HarmShows ==
    /\ writer = "writing" => ~harmed
    /\ ~harmed => Whole
    /\ harmed /\ writer = "closed" => ~Whole

\* A reader has opened what is before it, which is in place.
FirstBytes(content, n) == Len(content) = n /\ \A k \in 1..n : content[k] = k
ReaderFollows ==
    LET r == opened IN
    /\ r.pc = "idle" => r = NoReader
    /\ r.pc # "idle" => writer # "writing"
    /\ r.pc = "reading" =>
          /\ r.at = r.segment * (Segment + 1) + 1 /\ r.at <= Len(file) + 1
          /\ r.segment = 0 \/ r.at <= Len(file)
          /\ InPlace(r.at - 1)
          /\ r.segment * Segment <= written /\ FirstBytes(r.content, r.segment * Segment)
    /\ r.pc = "eof" => writer = "closed" /\ Whole /\ FirstBytes(r.content, written)
    /\ r.pc = "failed" =>
          /\ writer = "crashed" \/ harmed
          /\ Len(r.content) <= written /\ FirstBytes(r.content, Len(r.content))

IInv ==
    /\ TypeOK
    /\ StagedTyped
    /\ BufferFits
    /\ BytesWereSealed
    /\ HarmShows
    /\ ReaderFollows
=============================================================================
