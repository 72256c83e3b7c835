-------------------------------- MODULE Scrub ---------------------------------
(***************************************************************************)
(* Scrubbing (internal/cas/scrub.go, internal/db/scrub.go): instances      *)
(* claim stored content that has gone an interval without a check, read it *)
(* back, and record what they found, or give the claim back.  Meanwhile    *)
(* content rots, reads find it damaged, garbage collection takes it,       *)
(* uploads bring it back, and instances crash.                             *)
(*                                                                         *)
(* Content is a xorb, or a blob stored whole before chunking.  A claim is  *)
(* of one content: those of a batch, which one instance checks in turn,    *)
(* are as those of several instances.  Time is a small number; what was    *)
(* never checked was at Never.                                             *)
(***************************************************************************)
EXTENDS Integers

CONSTANTS
    Xorbs,      \* contents that are xorbs
    Wholes,     \* and those that are blobs stored whole
    Scrubber,   \* claims that are worked on at once
    Interval,   \* how long content may go without a check (scrub_interval_secs)
    MaxTime,    \* bounds the model
    MaxRot      \* contents that rot (bounds the model)

VARIABLES
    now,
    contents,   \* each content: its row, and its bytes
    scrubber,   \* what each has claimed, and what it found
    rots,       \* contents that rotted
    evidence,   \* when each content was last written, or found sound or not
    forsaken,   \* when claims were made that nobody will end
    excused     \* contents that were unsound, or written again under a check

histories == <<rots, evidence, forsaken, excused>>
vars == <<now, contents, scrubber, histories>>

Content == Xorbs \cup Wholes
Never == -1
NoClaim == "none"
NoCheck == [pc |-> "idle", content |-> NoClaim, verified |-> Never, at |-> Never]

Init ==
    /\ now = 0
    /\ contents = [c \in Content |->
          [row |-> "live", verified |-> Never, damaged |-> FALSE, bytes |-> "sound"]]
    /\ scrubber = [s \in Scrubber |-> NoCheck]
    /\ rots = 0
    /\ evidence = [c \in Content |-> Never]
    /\ forsaken = [c \in Content |-> {}]
    /\ excused = {}

----------------------------------------------------------------------------
Due(c) ==
    /\ contents[c].row = "live"
    /\ contents[c].verified = Never \/ contents[c].verified < now - Interval

Claims(c) == {s \in Scrubber : scrubber[s].content = c}

Becomes(c, row) == contents' = [contents EXCEPT ![c] = row]
Exists(c) == contents[c].row # "absent"
Goes(s, pc) == scrubber' = [scrubber EXCEPT ![s].pc = pc]

\* The check is over; and its claim ends with nothing recorded.
Ends(s) == scrubber' = [scrubber EXCEPT ![s] = NoCheck]
Forsake(s) == forsaken' = [forsaken EXCEPT ![scrubber[s].content] = @ \cup {scrubber[s].at}]

----------------------------------------------------------------------------
(* A scrub. *)

\* ClaimScrub: what was never checked first, then the longest unchecked.
ClaimScrub(s, c) ==
    /\ scrubber[s] = NoCheck
    /\ Due(c)
    /\ \A d \in Content : Due(d) => contents[c].verified <= contents[d].verified
    /\ scrubber' = [scrubber EXCEPT ![s] =
          [pc |-> "rows", content |-> c, verified |-> contents[c].verified, at |-> now]]
    /\ Becomes(c, [contents[c] EXCEPT !.verified = now])
    /\ UNCHANGED <<now, histories>>

\* checkXorb: what the rows say of the xorb, if there are any.  (A whole blob
\* has none but its own.)
ReadRows(s) ==
    /\ scrubber[s].pc = "rows"
    /\ Goes(s, IF scrubber[s].content \in Wholes \/ Exists(scrubber[s].content) THEN "bytes" ELSE "norows")
    /\ UNCHANGED <<now, contents, histories>>

\* checkXorb and checkWholeBlob: the bytes.  If they are not there, ContentLive
\* is asked.  If they are there and the rows were not, they do not match.
ReadBytes(s) ==
    LET bytes == contents[scrubber[s].content].bytes IN
    /\ scrubber[s].pc \in {"bytes", "norows"}
    /\ Goes(s, CASE bytes = "gone" -> "gone"
                 [] bytes = "sound" /\ scrubber[s].pc = "bytes" -> "sound"
                 [] OTHER -> "unsound")
    /\ UNCHANGED <<now, contents, histories>>

\* Mutant of ContentLive: content that has a row is live.
ContentLiveByRow(s) ==
    /\ scrubber[s].pc = "gone"
    /\ IF Exists(scrubber[s].content)
       THEN Goes(s, "unsound") /\ UNCHANGED forsaken
       ELSE Ends(s) /\ Forsake(s)
    /\ UNCHANGED <<now, contents, rots, evidence, excused>>

\* ContentLive: what is missing is damaged if it is live; else it was collected,
\* and there is nothing to record.
ContentLive(s) ==
    /\ scrubber[s].pc = "gone"
    /\ IF contents[scrubber[s].content].row = "live"
       THEN Goes(s, "unsound") /\ UNCHANGED forsaken
       ELSE Ends(s) /\ Forsake(s)
    /\ UNCHANGED <<now, contents, rots, evidence, excused>>

\* RecordScrub.
RecordScrub(s) ==
    LET c == scrubber[s].content IN
    /\ scrubber[s].pc \in {"sound", "unsound"}
    /\ Becomes(c, IF ~Exists(c) THEN contents[c]
                  ELSE IF scrubber[s].pc = "sound"
                  THEN [contents[c] EXCEPT !.verified = now, !.damaged = FALSE]
                  ELSE [contents[c] EXCEPT !.damaged = TRUE])
    /\ Ends(s)
    /\ evidence' = [evidence EXCEPT ![c] = now]
    /\ UNCHANGED <<now, rots, forsaken, excused>>

\* RequeueScrub: a check that cannot be made (the backend or the database fails, or the
\* instance stops) gives its claim back.
RequeueScrub(s) ==
    LET c == scrubber[s].content IN
    /\ scrubber[s].pc \in {"rows", "bytes", "norows", "gone"}
    /\ Becomes(c, IF Exists(c) THEN [contents[c] EXCEPT !.verified = scrubber[s].verified] ELSE contents[c])
    /\ Ends(s)
    /\ UNCHANGED <<now, histories>>

\* The result, or the return of the claim, cannot be written; or the instance
\* crashes.
LoseClaim(s) ==
    /\ scrubber[s].pc # "idle"
    /\ Ends(s)
    /\ Forsake(s)
    /\ UNCHANGED <<now, contents, rots, evidence, excused>>

----------------------------------------------------------------------------
(* What others do. *)

Tick ==
    /\ now < MaxTime
    /\ now' = now + 1
    /\ UNCHANGED <<contents, scrubber, histories>>

Rot(c) ==
    /\ contents[c].bytes = "sound" /\ rots < MaxRot
    /\ Becomes(c, [contents[c] EXCEPT !.bytes = "rotten"])
    /\ rots' = rots + 1
    /\ excused' = excused \cup {c}
    /\ UNCHANGED <<now, scrubber, evidence, forsaken>>

\* MarkXorbDamaged: a read found a xorb damaged.
MarkXorbDamaged(c) ==
    /\ c \in Xorbs /\ contents[c].row = "live" /\ contents[c].bytes = "rotten"
    /\ ~contents[c].damaged
    /\ Becomes(c, [contents[c] EXCEPT !.damaged = TRUE])
    /\ UNCHANGED <<now, scrubber, histories>>

\* The last that used it is deleted, and garbage collection takes the bytes,
\* and then the row.
Release(c) ==
    /\ contents[c].row = "live"
    /\ Becomes(c, [contents[c] EXCEPT !.row = "unused"])
    /\ UNCHANGED <<now, scrubber, histories>>

SweepBytes(c) ==
    /\ contents[c].row = "unused" /\ contents[c].bytes # "gone"
    /\ Becomes(c, [contents[c] EXCEPT !.bytes = "gone"])
    /\ UNCHANGED <<now, scrubber, histories>>

SweepRow(c) ==
    /\ contents[c].row = "unused" /\ contents[c].bytes = "gone"
    /\ Becomes(c, [row |-> "absent", verified |-> Never, damaged |-> FALSE, bytes |-> "gone"])
    /\ UNCHANGED <<now, scrubber, histories>>

Written(c) ==
    /\ evidence' = [evidence EXCEPT ![c] = now]
    /\ excused' = IF Claims(c) # {} THEN excused \cup {c}
                  ELSE IF contents[c].damaged THEN excused ELSE excused \ {c}
    /\ UNCHANGED <<now, scrubber, rots, forsaken>>

\* A commit: a new row, or one that nothing used, whose bytes are written if
\* they are gone.  (A new blob is not stored whole.)
Commit(c) ==
    \/ /\ c \in Xorbs /\ contents[c].row = "absent"
       /\ Becomes(c, [row |-> "live", verified |-> now, damaged |-> FALSE, bytes |-> "sound"])
       /\ Written(c)
    \/ /\ c \in Xorbs /\ contents[c].row = "unused" /\ contents[c].bytes = "gone"
       /\ Becomes(c, [contents[c] EXCEPT !.row = "live", !.bytes = "sound"])
       /\ Written(c)
    \/ /\ contents[c].row = "unused" /\ contents[c].bytes # "gone"
       /\ Becomes(c, [contents[c] EXCEPT !.row = "live"])
       /\ UNCHANGED <<now, scrubber, histories>>

\* An upload of the content of a whole blob writes its file anew when the blob
\* is damaged, when nothing used it, and when the namespace did not hold it
\* (which of the live ones that is, is left open).  Only a damaged row is said
\* to be repaired (RepairedBlob): verified_at stays for the others.
Repair(c) ==
    /\ c \in Wholes /\ Exists(c)
    /\ Becomes(c, [row |-> "live", bytes |-> "sound", damaged |-> FALSE,
                   verified |-> IF contents[c].damaged THEN now ELSE contents[c].verified])
    /\ Written(c)

\* Nothing is left that could be scrubbed.
Rest ==
    /\ \A c \in Content : c \in Wholes /\ ~Exists(c)
    /\ UNCHANGED vars

Next ==
    \/ \E s \in Scrubber :
          \/ \E c \in Content : ClaimScrub(s, c)
          \/ ReadRows(s)
          \/ ReadBytes(s)
          \/ ContentLive(s)
          \/ RecordScrub(s)
          \/ RequeueScrub(s)
          \/ LoseClaim(s)
    \/ \E c \in Content :
          \/ Rot(c)
          \/ MarkXorbDamaged(c)
          \/ Release(c)
          \/ SweepBytes(c)
          \/ SweepRow(c)
          \/ Commit(c)
          \/ Repair(c)
    \/ Tick
    \/ Rest

Spec == Init /\ [][Next]_vars

----------------------------------------------------------------------------
(* Properties. *)

Time == 0..MaxTime

\* Types; and live content has its row, and bytes.
TypeOK ==
    /\ now \in Time /\ rots \in 0..MaxRot /\ excused \subseteq Content
    /\ contents \in [Content -> [row : {"live", "unused", "absent"}, verified : Time \cup {Never},
                                 damaged : BOOLEAN, bytes : {"sound", "rotten", "gone"}]]
    /\ evidence \in [Content -> Time \cup {Never}]
    /\ \A c \in Content : contents[c].row = "live" => contents[c].bytes # "gone"
    /\ \A s \in Scrubber :
          /\ scrubber[s].pc \in {"idle", "rows", "norows", "bytes", "gone", "sound", "unsound"}
          /\ scrubber[s].pc = "idle" <=> scrubber[s] = NoCheck
          /\ scrubber[s].content \in Content \cup {NoClaim}

\* Live content that is not due was checked, or written, no earlier than it
\* says, unless a claim of that time is still being worked on, or was lost: a
\* check that could not be made leaves its content due, however claims of other
\* instances on it come between.
VerifiedMeansChecked ==
    \A c \in Content :
        contents[c].row = "live" /\ ~Due(c) =>
            \/ evidence[c] >= contents[c].verified
            \/ \E s \in Claims(c) : scrubber[s].at = contents[c].verified
            \/ contents[c].verified \in forsaken[c]

\* Content is recorded as damaged only if its bytes were unsound, or it was
\* collected and written again under a check: what garbage collection takes
\* while it is being checked is not taken for damage.
DamageIsReal == \A c \in Content : contents[c].damaged => c \in excused

\* Both.
ScrubsAreTruthful == VerifiedMeansChecked /\ DamageIsReal

----------------------------------------------------------------------------
(* What the proofs rest on (ScrubProofs). *)

ScrubAssumption ==
    /\ Interval \in Nat /\ MaxTime \in Nat /\ MaxRot \in Nat
    /\ NoClaim \notin Content

Times == Time \cup {Never}
Claim == [pc : {"rows", "norows", "bytes", "gone", "sound", "unsound"}, content : Content,
          verified : Times, at : Times]

ScrubsTyped ==
    /\ scrubber \in [Scrubber -> Claim \cup {NoCheck}]
    /\ forsaken \in [Content -> SUBSET Times]

\* Nothing was checked or written later than it is now; what has no row has no
\* bytes, and nothing is said of it.
RowsInOrder ==
    \A c \in Content :
        /\ contents[c].verified <= now /\ evidence[c] <= now
        /\ ~Exists(c) => contents[c].bytes = "gone" /\ ~contents[c].damaged

\* What was last checked then is due, now and from then on.
DueSince(time) == time = Never \/ time < now - Interval

\* The time that a claim would give back is one at which the content is due,
\* whatever others have claimed or recorded since.
ClaimsGiveBackDue ==
    \A s \in Scrubber :
        scrubber[s].verified <= now /\ DueSince(scrubber[s].verified)

\* VerifiedMeansChecked, of what nothing uses too.
ChecksAccountedFor ==
    \A c \in Content :
        Exists(c) /\ ~DueSince(contents[c].verified) =>
            \/ evidence[c] >= contents[c].verified
            \/ \E s \in Claims(c) : scrubber[s].at = contents[c].verified
            \/ contents[c].verified \in forsaken[c]

\* What a check has seen so far excuses what it will say: it missed the rows of
\* a xorb that has none, or was written since; it missed bytes that are gone,
\* or were written since; it found bytes unsound.
ChecksAreExcused ==
    \A s \in Scrubber :
        LET c == scrubber[s].content IN
        /\ scrubber[s].pc = "norows" => c \in excused \/ ~Exists(c)
        /\ scrubber[s].pc = "gone" => c \in excused \/ contents[c].bytes = "gone"
        /\ scrubber[s].pc = "unsound" => c \in excused

RotIsExcused == \A c \in Content : contents[c].bytes = "rotten" => c \in excused

IInv ==
    /\ TypeOK
    /\ ScrubsTyped
    /\ RowsInOrder
    /\ ClaimsGiveBackDue
    /\ ChecksAccountedFor
    /\ ChecksAreExcused
    /\ RotIsExcused
    /\ DamageIsReal
=============================================================================
