------------------------------ MODULE MCContent ------------------------------
(***************************************************************************)
(* What happens to content, on small instances: Multipart, and the         *)
(* machines that stage content, cut it into chunks, write it, read it and  *)
(* scrub it.  They share no state.  One of them runs in each behaviour,    *)
(* the others stay as they began.                                          *)
(***************************************************************************)
EXTENDS MCMultipart, SequencesExt

CONSTANT Parts      \* the machines to run

VARIABLES
    running,    \* the machine that runs
    written, sealed, file, writer, harmed, opened,      \* StagedFile
    chunked, rest, chunker, finished,           \* Chunker
    content, placement, held, rows, bytes, decoys, plan, carried, sending, commit,  \* CommitPlan
    xorbs, terms, producer, slots, served, ended, rot, lost,    \* Reader
    now, contents, scrubber, rots, evidence, forsaken, excused  \* Scrub

----------------------------------------------------------------------------
(* StagedFile: up to three segments. *)

S == INSTANCE StagedFile WITH Segment <- 2, Longest <- 5

----------------------------------------------------------------------------
(* Chunker: two bytes, whose gears end a chunk often, and up to two chunks. *)

TwoGears == (1 :> 3) @@ (2 :> 6)

C == INSTANCE Chunker WITH
        Gear <- TwoGears,
        Window <- 3, MaskBits <- 2, MinChunk <- 5, MaxChunk <- 7, Longest <- 10,
        content <- chunked

----------------------------------------------------------------------------
(* CommitPlan: contents of up to five chunks, two chunks, xorbs of up to three. *)

TwoSizes == ("a" :> 1) @@ ("b" :> 2)
ShortContents == BoundedSeq({"a", "b"}, 4) \cup {<<"b", "a", "a", "b", "b">>, <<"b", "b", "a", "b", "a">>}
StoredXorbs == << <<"a", "a", "a">>, <<"a", "b">>, <<"b", "b">> >>
LeftXorbs == {<<"b", "a">>}

P == INSTANCE CommitPlan WITH
        Size <- TwoSizes, Contents <- ShortContents, Stored <- StoredXorbs, Orphan <- LeftXorbs,
        MinDedupRun <- 2, MaxXorbChunks <- 3, MaxXorbBytes <- 6, Overhead <- 1,
        XorbUploads <- 1, CommitAttempts <- 3,
        written <- carried

----------------------------------------------------------------------------
(* Reader: a blob of the chunks a and b in x1, after a chunk of others', and  *)
(* of c in x2.  Compaction moves x1's to y1; w holds another copy of b.       *)

ReadXorbs == ("x1" :> <<"z", "a", "b">>) @@ ("x2" :> <<"c">>)
          @@ ("y1" :> <<"a", "b">>) @@ ("w" :> <<"b">>)
ReadSizes == ("a" :> 2) @@ ("b" :> 1) @@ ("c" :> 2) @@ ("z" :> 1)
ReadBlob == <<[xorb |-> "x1", first |-> 2, last |-> 3], [xorb |-> "x2", first |-> 1, last |-> 1]>>
ReadMoves == ("x1" :> "y1") @@ ("x2" :> "x2") @@ ("y1" :> "y1") @@ ("w" :> "w")
ReadRanges == {<<1, 4>>}      \* which begins and ends inside a chunk

R == INSTANCE Reader WITH
        Holds <- ReadXorbs, Size <- ReadSizes, Blob <- ReadBlob, MovesTo <- ReadMoves,
        Stored <- {"w"}, Used <- {"x1", "x2"}, Shared <- {"x1"}, Ranges <- ReadRanges,
        TermPage <- 1, ReadGroup <- 2, ReadAhead <- 2, MaxRereads <- 1, MaxRot <- 1

----------------------------------------------------------------------------
(* Scrub: of a xorb, and of a blob stored whole. *)

X == INSTANCE Scrub WITH
        Xorbs <- {"x"}, Wholes <- {}, Scrubber <- {"s1", "s2"},
        Interval <- 1, MaxTime <- 3, MaxRot <- 1
W == INSTANCE Scrub WITH
        Xorbs <- {}, Wholes <- {"b"}, Scrubber <- {"s1", "s2"},
        Interval <- 1, MaxTime <- 3, MaxRot <- 1

----------------------------------------------------------------------------
stagedVars == <<written, sealed, file, writer, harmed, opened>>
chunkerVars == <<chunked, rest, chunker, finished>>
commitVars == <<content, placement, held, rows, bytes, decoys, plan, carried, sending, commit>>
readerVars == <<xorbs, terms, producer, slots, served, ended, rot, lost>>
scrubVars == <<now, contents, scrubber, rots, evidence, forsaken, excused>>
all == <<vars, stagedVars, chunkerVars, commitVars, readerVars, scrubVars, running>>

\* A machine that does not run has no state.
Off == 0
NoStaging ==
    /\ written = Off /\ sealed = Off /\ file = Off /\ writer = Off /\ harmed = Off /\ opened = Off
NoChunker ==
    /\ chunked = Off /\ rest = Off /\ chunker = Off /\ finished = Off
NoCommit ==
    /\ content = Off /\ placement = Off /\ held = Off /\ rows = Off /\ bytes = Off
    /\ decoys = Off /\ plan = Off /\ carried = Off /\ sending = Off /\ commit = Off
NoReader ==
    /\ xorbs = Off /\ terms = Off /\ producer = Off /\ slots = Off /\ served = Off
    /\ ended = Off /\ rot = Off /\ lost = Off
NoScrub ==
    /\ now = Off /\ contents = Off /\ scrubber = Off /\ rots = Off /\ evidence = Off
    /\ forsaken = Off /\ excused = Off

MCInit ==
    /\ running \in Parts
    /\ Init
    /\ IF running = "staging" THEN S!Init ELSE NoStaging
    /\ IF running = "chunking" THEN C!Init ELSE NoChunker
    /\ IF running = "committing" THEN P!Init ELSE NoCommit
    /\ IF running = "reading" THEN R!Init ELSE NoReader
    /\ CASE running = "xorbs" -> X!Init
         [] running = "wholes" -> W!Init
         [] OTHER -> NoScrub

\* Of these, Multipart meets one at a time: a third file in use; a fault; both
\* clients and the loop busy.
InUse == {f \in File : ~Fresh(f)}
Busy == {c \in Client : req[c] # IdleRequest} \cup {g \in Sweeper : job[g] # IdleJob}
InScope ==
    /\ Cardinality(InUse) > 2 => faults = 0 /\ Cardinality(Busy) <= 2
    /\ faults > 0 => Cardinality(Busy) <= 2

MCNext ==
    \/ running = "multipart" /\ Next /\ InScope'
        /\ UNCHANGED <<stagedVars, chunkerVars, commitVars, readerVars, scrubVars, running>>
    \/ running = "staging" /\ S!Next
        /\ UNCHANGED <<vars, chunkerVars, commitVars, readerVars, scrubVars, running>>
    \/ running = "chunking" /\ C!Next
        /\ UNCHANGED <<vars, stagedVars, commitVars, readerVars, scrubVars, running>>
    \/ running = "committing" /\ P!Next
        /\ UNCHANGED <<vars, stagedVars, chunkerVars, readerVars, scrubVars, running>>
    \/ running = "reading" /\ R!Next
        /\ UNCHANGED <<vars, stagedVars, chunkerVars, commitVars, scrubVars, running>>
    \/ running = "xorbs" /\ X!Next
        /\ UNCHANGED <<vars, stagedVars, chunkerVars, commitVars, readerVars, running>>
    \/ running = "wholes" /\ W!Next
        /\ UNCHANGED <<vars, stagedVars, chunkerVars, commitVars, readerVars, running>>

MCSpec == MCInit /\ [][MCNext]_all

----------------------------------------------------------------------------
(* Properties: those of the machines. *)

\* The types of each machine's state, and what goes with them.
PartsTypeOK ==
    /\ running = "multipart" => TypeOK
    /\ running = "staging" => S!StagedAssumption /\ S!IInv
    /\ running = "chunking" => C!ChunkerAssumption /\ C!TypeOK
    /\ running = "committing" => P!TypeOK
    /\ running = "reading" => R!TypeOK
    /\ running = "xorbs" => X!ScrubAssumption /\ X!IInv
    /\ running = "wholes" => W!ScrubAssumption /\ W!IInv

StagedContentIsWhole == running = "staging" => S!StagedContentIsWhole
ChunksAreDefined == running = "chunking" => C!ChunksAreDefined
TermsSpellContent == running = "committing" => P!TermsSpellContent
CommitsAreWhole == running = "committing" => P!CommitsAreWhole
RetriesWriteTheirOwn == running = "committing" => P!RetriesWriteTheirOwn
ServesTheRange == running = "reading" => R!ServesTheRange
ReadsFailOnlyIfLost == running = "reading" => R!ReadsFailOnlyIfLost
ScrubsAreTruthful ==
    /\ running = "xorbs" => X!ScrubsAreTruthful
    /\ running = "wholes" => W!ScrubsAreTruthful
=============================================================================
