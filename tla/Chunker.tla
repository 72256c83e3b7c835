------------------------------- MODULE Chunker -------------------------------
(***************************************************************************)
(* Cutting content into chunks (internal/cas/chunker.go).  A gear hash     *)
(* rolls over the bytes, which come in writes of any length, and a chunk   *)
(* ends where the hash's top bits are zero.  The bytes of a chunk that no  *)
(* cut depends on are not hashed.                                          *)
(*                                                                         *)
(* A hash of content is the content itself, so that two are equal only if  *)
(* they are of the same.                                                   *)
(***************************************************************************)
EXTENDS Integers, SequencesExt

CONSTANTS
    Gear,       \* the gear table: a hash for each byte
    Window,     \* gearWindow, the bits of a hash: how many bytes it depends on
    MaskBits,   \* how many of its top bits a cut needs to be zero
    MinChunk, MaxChunk,
    Longest     \* bound on the length of contents

VARIABLES
    content,    \* history: all that was written
    rest,       \* what Write has still to go through
    chunker,    \* the chunker
    finished    \* whether its chunks were taken

vars == <<content, rest, chunker, finished>>

ChunkerAssumption ==
    /\ Window \in Nat \ {0}
    /\ MaskBits \in 1..Window
    /\ Window < MinChunk
    /\ MinChunk <= MaxChunk
    /\ \A b \in DOMAIN Gear : Gear[b] \in 0..2^Window - 1

Byte == DOMAIN Gear

\* A db.ChunkRef.
ChunkRef == [hash : BoundedSeq(Byte, MaxChunk), pos : 0..Longest, size : 1..MaxChunk]
NoBytes == [fp |-> 0, n |-> 0, pos |-> 0, hasher |-> <<>>, chunks |-> <<>>]

Init ==
    /\ content = <<>>
    /\ rest = <<>>
    /\ chunker = NoBytes
    /\ finished = FALSE

----------------------------------------------------------------------------
(* The rolling hash: a byte is shifted out of it after Window others. *)

Roll(fp, byte) == (2 * fp + Gear[byte]) % 2^Window
Rolled(fp, bytes) == FoldLeft(Roll, fp, bytes)
Matches(fp) == fp \div 2^(Window - MaskBits) = 0

\* Mutant of Skipped: the skip is taken from each write, not from the chunk.
SkippedOfWrite(n) == Max({0, MinChunk - Window - 1})

\* How many of the next bytes no cut can depend on, in a chunk of n.
Skipped(n) == Max({0, MinChunk - Window - 1 - n})

\* Where p completes the current chunk, or -1, and the hash after what was
\* scanned.
Boundary(c, p) ==
    LET skip == Skipped(c.n)
        end == Min({Len(p), MaxChunk - c.n})
        After(i) == Rolled(c.fp, SubSeq(p, skip + 1, i))
        cuts == {i \in skip + 1..end : Matches(After(i)) /\ c.n + i >= MinChunk}
    IN IF skip >= Len(p) THEN [cut |-> -1, fp |-> c.fp]
       ELSE IF cuts # {} THEN [cut |-> Min(cuts), fp |-> 0]
       ELSE IF c.n + end >= MaxChunk THEN [cut |-> end, fp |-> 0]
       ELSE [cut |-> -1, fp |-> After(end)]

Emit(c) ==
    [c EXCEPT !.chunks = Append(@, [hash |-> c.hasher, pos |-> c.pos, size |-> c.n]),
              !.pos = @ + c.n, !.n = 0, !.fp = 0, !.hasher = <<>>]

Take(c, p) == [c EXCEPT !.hasher = @ \o p, !.n = @ + Len(p)]

\* A call of Write, and one turn of its loop.
Write(p) ==
    /\ rest = <<>> /\ ~finished
    /\ rest' = p
    /\ content' = content \o p
    /\ UNCHANGED <<chunker, finished>>

Scan ==
    LET b == Boundary(chunker, rest)
        scanned == [chunker EXCEPT !.fp = b.fp]
    IN /\ rest # <<>>
       /\ IF b.cut < 0
          THEN /\ chunker' = Take(scanned, rest)
               /\ rest' = <<>>
          ELSE /\ chunker' = Emit(Take(scanned, SubSeq(rest, 1, b.cut)))
               /\ rest' = SubSeq(rest, b.cut + 1, Len(rest))
       /\ UNCHANGED <<content, finished>>

Finish ==
    /\ rest = <<>> /\ ~finished
    /\ chunker' = IF chunker.n > 0 THEN Emit(chunker) ELSE chunker
    /\ finished' = TRUE
    /\ UNCHANGED <<content, rest>>

\* The same chunker never takes another content.
Done == finished /\ UNCHANGED vars

Next ==
    \/ \E p \in BoundedSeq(Byte, Longest - Len(content)) : p # <<>> /\ Write(p)
    \/ Scan
    \/ Finish
    \/ Done

Spec == Init /\ [][Next]_vars

----------------------------------------------------------------------------
(* Properties. *)

\* Between scans the chunker has counted the bytes it took, and no chunk is
\* as long as the longest without having been cut.
TypeOK ==
    /\ content \in BoundedSeq(Byte, Longest)
    /\ chunker.fp \in 0..2^Window - 1
    /\ chunker.chunks \in Seq(ChunkRef)
    /\ chunker.n = Len(chunker.hasher) /\ chunker.n \in 0..MaxChunk - 1
    /\ chunker.pos + chunker.n + Len(rest) = Len(content)
    /\ finished \in BOOLEAN

\* The first chunk of a content, by definition: every byte of it is hashed.
FirstChunk(bytes) ==
    Min({Len(bytes)} \cup
        {n \in MinChunk..Len(bytes) :
            n = MaxChunk \/ Matches(Rolled(0, SubSeq(bytes, 1, n)))})

\* The chunks are those of the definition, one after another from the first byte
\* to the last, with the hashes of their bytes, in whatever writes the content
\* came: boundaries do not move with the buffers that carry it (chunker.go:36).
ChunksAreDefined ==
    LET chunks == chunker.chunks
        Ends(k) == IF k = 0 THEN 0 ELSE chunks[k].pos + chunks[k].size
        From(pos) == SubSeq(content, pos + 1, Len(content))
    IN /\ \A k \in DOMAIN chunks :
             /\ chunks[k].pos = Ends(k - 1)
             /\ chunks[k].size = FirstChunk(From(chunks[k].pos))
             /\ chunks[k].hash = SubSeq(content, chunks[k].pos + 1, Ends(k))
       /\ finished => Ends(Len(chunks)) = Len(content)
=============================================================================
