----------------------------- MODULE ScrubProofs -----------------------------
(***************************************************************************)
(* Proofs of Scrub, for any contents, any number of instances that scrub   *)
(* them and any interval: what is not due was checked or written when it   *)
(* says it was, unless its check goes on or was lost, and content that is  *)
(* recorded as damaged was unsound, or written again under its check.      *)
(***************************************************************************)
EXTENDS Scrub, TLAPS

Row == [row : {"live", "unused", "absent"}, verified : Times,
        damaged : BOOLEAN, bytes : {"sound", "rotten", "gone"}]

\* The parts of the invariant, of one content and of one claim.
InOrder(c) ==
    /\ contents[c].verified <= now /\ evidence[c] <= now
    /\ ~Exists(c) => contents[c].bytes = "gone" /\ ~contents[c].damaged

Accounted(c) ==
    Exists(c) /\ ~DueSince(contents[c].verified) =>
        \/ evidence[c] >= contents[c].verified
        \/ \E s \in Claims(c) : scrubber[s].at = contents[c].verified
        \/ contents[c].verified \in forsaken[c]

Excused(s) ==
    LET c == scrubber[s].content IN
    /\ scrubber[s].pc = "norows" => c \in excused \/ ~Exists(c)
    /\ scrubber[s].pc = "gone" => c \in excused \/ contents[c].bytes = "gone"
    /\ scrubber[s].pc = "unsound" => c \in excused

GivesBackDue(s) == scrubber[s].verified <= now /\ DueSince(scrubber[s].verified)

LEMMA Parts ==
    /\ RowsInOrder <=> \A c \in Content : InOrder(c)
    /\ ChecksAccountedFor <=> \A c \in Content : Accounted(c)
    /\ ChecksAreExcused <=> \A s \in Scrubber : Excused(s)
    /\ ClaimsGiveBackDue <=> \A s \in Scrubber : GivesBackDue(s)
  BY DEF RowsInOrder, ChecksAccountedFor, ChecksAreExcused, ClaimsGiveBackDue,
         InOrder, Accounted, Excused, GivesBackDue

----------------------------------------------------------------------------
(* Types. *)

LEMMA TimesAreInts == ASSUME ScrubAssumption PROVE Times \subseteq Int
  BY DEF ScrubAssumption, Times, Time, Never

LEMMA RowsTyped == ASSUME TypeOK PROVE contents \in [Content -> Row]
  BY DEF TypeOK, Row, Times

\* A claim that is worked on is of a content, and each has a time.
LEMMA ClaimsTyped ==
    ASSUME ScrubsTyped, NEW s \in Scrubber
    PROVE /\ scrubber[s] # NoCheck => scrubber[s] \in Claim
          /\ scrubber[s] \in Claim => scrubber[s].content \in Content
          /\ scrubber[s].pc = "idle" <=> scrubber[s] = NoCheck
          /\ scrubber[s].verified \in Times /\ scrubber[s].at \in Times
          /\ scrubber[s].pc # "idle" => s \in Claims(scrubber[s].content)
  <1>1. scrubber[s] \in Claim \cup {NoCheck}
    BY DEF ScrubsTyped
  <1> QED
    BY <1>1 DEF Claim, NoCheck, Times, Claims

\* Types after a step: the part of TypeOK that is about scrubbers follows from
\* theirs.
LEMMA Typed ==
    ASSUME ScrubsTyped', contents' \in [Content -> Row], now' \in Time, rots' \in 0..MaxRot,
           excused' \subseteq Content, evidence' \in [Content -> Times],
           \A c \in Content : contents'[c].row = "live" => contents'[c].bytes # "gone"
    PROVE TypeOK'
  <1>1. \A s \in Scrubber :
          /\ scrubber'[s].pc \in {"idle", "rows", "norows", "bytes", "gone", "sound", "unsound"}
          /\ scrubber'[s].pc = "idle" <=> scrubber'[s] = NoCheck
          /\ scrubber'[s].content \in Content \cup {NoClaim}
    <2> TAKE s \in Scrubber
    <2>1. scrubber'[s] \in Claim \cup {NoCheck}
      BY DEF ScrubsTyped
    <2> QED
      BY <2>1 DEF Claim, NoCheck
  <1> QED
    BY <1>1 DEF TypeOK, Row, Times

LEMMA BecomesTyped ==
    ASSUME TypeOK, NEW c \in Content, NEW row \in Row, Becomes(c, row),
           row.row = "live" => row.bytes # "gone"
    PROVE /\ contents' \in [Content -> Row]
          /\ contents'[c] = row
          /\ \A d \in Content \ {c} : contents'[d] = contents[d]
          /\ \A d \in Content : contents'[d].row = "live" => contents'[d].bytes # "gone"
  <1>1. contents \in [Content -> Row]
    BY RowsTyped
  <1> QED
    BY <1>1 DEF Becomes, TypeOK

\* A check that goes on, and one that is over.
LEMMA GoesTyped ==
    ASSUME ScrubsTyped, NEW s \in Scrubber, scrubber[s].pc # "idle",
           NEW pc \in {"rows", "norows", "bytes", "gone", "sound", "unsound"}, Goes(s, pc)
    PROVE /\ scrubber' \in [Scrubber -> Claim \cup {NoCheck}]
          /\ scrubber'[s].pc = pc /\ \A t \in Scrubber \ {s} : scrubber'[t] = scrubber[t]
          /\ \A t \in Scrubber : /\ scrubber'[t].content = scrubber[t].content
                                 /\ scrubber'[t].at = scrubber[t].at
                                 /\ scrubber'[t].verified = scrubber[t].verified
          /\ \A c \in Content : Claims(c)' = Claims(c)
  <1>1. scrubber[s] \in Claim
    BY ClaimsTyped
  <1>2. /\ scrubber' \in [Scrubber -> Claim \cup {NoCheck}]
        /\ scrubber'[s].pc = pc /\ \A t \in Scrubber \ {s} : scrubber'[t] = scrubber[t]
        /\ /\ scrubber'[s].content = scrubber[s].content
           /\ scrubber'[s].at = scrubber[s].at
           /\ scrubber'[s].verified = scrubber[s].verified
    BY <1>1 DEF Goes, ScrubsTyped, Claim
  <1> QED
    BY <1>2 DEF Claims

LEMMA EndsTyped ==
    ASSUME ScrubsTyped, NEW s \in Scrubber, Ends(s)
    PROVE /\ scrubber' \in [Scrubber -> Claim \cup {NoCheck}]
          /\ scrubber'[s] = NoCheck
          /\ \A t \in Scrubber \ {s} : scrubber'[t] = scrubber[t]
          /\ \A c \in Content : Claims(c) \ {s} \subseteq Claims(c)'
  BY DEF Ends, ScrubsTyped, Claims

----------------------------------------------------------------------------
(* What stays true. *)

LEMMA LaterStill ==
    ASSUME NEW t \in Int, NEW m \in Int, NEW n \in Int, NEW i \in Int, m <= n, t < m - i
    PROVE t < n - i
  OBVIOUS

\* What is due stays due.
LEMMA DueStays ==
    ASSUME ScrubAssumption, NEW time \in Times, now \in Time, now' \in Time, now <= now',
           DueSince(time)
    PROVE DueSince(time)'
  <1>1. time \in Int /\ now \in Int /\ now' \in Int /\ Interval \in Int
    BY TimesAreInts DEF ScrubAssumption, Times, Time
  <1>2. time < now - Interval => time < now' - Interval
    BY <1>1, LaterStill
  <1>3. DueSince(time)' <=> (time = Never \/ time < now' - Interval)
    BY DEF DueSince, Never
  <1> QED
    BY <1>2, <1>3 DEF DueSince

\* A content is accounted for if it says nothing new, was found no less, and
\* its claims go on or are lost.
LEMMA AccountedStays ==
    ASSUME ScrubAssumption, TypeOK, TypeOK', ScrubsTyped, NEW c \in Content, Accounted(c),
           now <= now', contents'[c].verified = contents[c].verified, Exists(c)' => Exists(c),
           evidence[c] <= evidence'[c], forsaken[c] \subseteq forsaken'[c],
           \A s \in Claims(c) : \/ s \in Claims(c)' /\ scrubber'[s].at = scrubber[s].at
                                \/ scrubber[s].at \in forsaken'[c]
    PROVE Accounted(c)'
  <1> DEFINE v == contents[c].verified
  <1>1. /\ v \in Times /\ now \in Time /\ now' \in Time
        /\ evidence[c] \in Times /\ evidence'[c] \in Times
    BY DEF TypeOK, Times
  <1>2. v \in Int /\ evidence[c] \in Int /\ evidence'[c] \in Int
    BY <1>1, TimesAreInts
  <1>3. SUFFICES ASSUME Exists(c)', ~DueSince(v)'
                 PROVE \/ evidence'[c] >= v
                       \/ \E s \in Claims(c)' : scrubber'[s].at = v
                       \/ v \in forsaken'[c]
    BY DEF Accounted
  <1>4. ~DueSince(v)
    BY <1>1, <1>3, DueStays
  <1>5. CASE evidence[c] >= v
    BY <1>2, <1>5
  <1>6. CASE \E s \in Claims(c) : scrubber[s].at = v
    BY <1>6
  <1>7. CASE v \in forsaken[c]
    BY <1>7
  <1> QED
    BY <1>3, <1>4, <1>5, <1>6, <1>7 DEF Accounted

\* A claim that does not go on is excused as it was, if its content is, and if
\* what it missed did not come back without an excuse.
LEMMA ExcusedStays ==
    ASSUME NEW s \in Scrubber, Excused(s), scrubber'[s] = scrubber[s],
           scrubber[s].pc # "idle" =>
              LET c == scrubber[s].content IN
              /\ c \in excused => c \in excused'
              /\ Exists(c)' => Exists(c) \/ c \in excused'
              /\ contents'[c].bytes # "gone" => contents[c].bytes # "gone" \/ c \in excused'
    PROVE Excused(s)'
  BY DEF Excused

----------------------------------------------------------------------------
(* What others do. *)

\* A step of others on one content: what it may not do.
LEMMA OthersKeep ==
    ASSUME ScrubAssumption, IInv, NEW c \in Content, NEW row \in Row, Becomes(c, row),
           UNCHANGED <<now, scrubber, forsaken>>,
           rots' \in 0..MaxRot, excused' \subseteq Content, evidence' \in [Content -> Times],
           \A d \in Content \ {c} : evidence'[d] = evidence[d] /\ (d \in excused => d \in excused'),
           evidence[c] <= evidence'[c], evidence'[c] <= now,
           Claims(c) # {} /\ c \in excused => c \in excused',
           row.verified <= now,
           row.row = "live" => row.bytes # "gone",
           row.row = "absent" => row.bytes = "gone" /\ ~row.damaged,
           row.row # "absent" /\ row.verified # contents[c].verified => evidence'[c] >= row.verified,
           row.row # "absent" /\ ~Exists(c) => evidence'[c] >= row.verified,
           row.row # "absent" => Exists(c) \/ Claims(c) = {} \/ c \in excused',
           row.bytes # "gone" => contents[c].bytes # "gone" \/ Claims(c) = {} \/ c \in excused',
           row.bytes = "rotten" => c \in excused',
           row.damaged => c \in excused'
    PROVE IInv'
  <1>1. /\ contents' \in [Content -> Row]
        /\ contents'[c] = row
        /\ \A d \in Content \ {c} : contents'[d] = contents[d]
        /\ \A d \in Content : contents'[d].row = "live" => contents'[d].bytes # "gone"
    BY BecomesTyped DEF IInv
  <1>2. ScrubsTyped'
    BY DEF IInv, ScrubsTyped
  <1>3. TypeOK'
    <2>1. now' \in Time
      BY DEF IInv, TypeOK
    <2> QED
      BY <1>1, <1>2, <2>1, Typed
  <1>4. Exists(c)' <=> row.row # "absent"
    BY <1>1 DEF Exists
  <1>5. \A d \in Content \ {c} : Exists(d)' <=> Exists(d)
    BY <1>1 DEF Exists
  <1>6. \A d \in Content : Claims(d)' = Claims(d)
    BY DEF Claims
  <1>7. RowsInOrder'
    BY <1>1, <1>4, <1>5 DEF IInv, RowsInOrder
  <1>8. ClaimsGiveBackDue'
    BY DEF IInv, ClaimsGiveBackDue, DueSince
  <1>9. \A d \in Content : evidence[d] <= evidence'[d]
    <2>1. \A d \in Content : evidence[d] \in Int
      BY TimesAreInts DEF IInv, TypeOK, Times
    <2> QED
      BY <2>1
  <1>10. now <= now'
    BY DEF IInv, TypeOK, Time, ScrubAssumption
  <1>11. ChecksAccountedFor'
    <2> SUFFICES ASSUME NEW d \in Content PROVE Accounted(d)'
      BY DEF ChecksAccountedFor, Accounted
    <2>1. Accounted(d)
      BY Parts DEF IInv
    <2>2. CASE d = c /\ Exists(c) /\ row.verified = contents[c].verified
      BY <1>1, <1>2, <1>3, <1>6, <1>9, <1>10, <2>1, <2>2, AccountedStays DEF IInv
    <2>3. CASE d = c /\ ~(Exists(c) /\ row.verified = contents[c].verified)
      BY <1>1, <1>4, <2>3 DEF Accounted
    <2>4. CASE d # c
      BY <1>1, <1>2, <1>3, <1>5, <1>6, <1>9, <1>10, <2>1, <2>4, AccountedStays DEF IInv
    <2> QED
      BY <2>2, <2>3, <2>4
  <1>12. ChecksAreExcused'
    <2> SUFFICES ASSUME NEW s \in Scrubber PROVE Excused(s)'
      BY DEF ChecksAreExcused, Excused
    <2> DEFINE d == scrubber[s].content
    <2>1. Excused(s) /\ scrubber'[s] = scrubber[s]
      BY Parts DEF IInv
    <2>2. ASSUME scrubber[s].pc # "idle"
          PROVE /\ d \in excused => d \in excused'
                /\ Exists(d)' => Exists(d) \/ d \in excused'
                /\ contents'[d].bytes # "gone" => contents[d].bytes # "gone" \/ d \in excused'
      <3>1. d \in Content /\ s \in Claims(d)
        BY <2>2, ClaimsTyped DEF IInv
      <3>2. CASE d = c
        BY <1>1, <1>4, <3>1, <3>2
      <3>3. CASE d # c
        BY <1>1, <1>5, <3>1, <3>3
      <3> QED
        BY <3>2, <3>3
    <2> QED
      BY <2>1, <2>2, ExcusedStays
  <1>13. RotIsExcused' /\ DamageIsReal'
    BY <1>1 DEF IInv, RotIsExcused, DamageIsReal
  <1> QED
    BY <1>2, <1>3, <1>7, <1>8, <1>11, <1>12, <1>13 DEF IInv

\* What a content is before such a step.
LEMMA RowOf ==
    ASSUME ScrubAssumption, IInv, NEW c \in Content
    PROVE /\ contents[c] \in Row
          /\ evidence[c] \in Times /\ evidence[c] <= evidence[c] /\ evidence[c] <= now
          /\ contents[c].verified \in Times /\ contents[c].verified <= now
          /\ now \in Times
          /\ ~Exists(c) => contents[c].bytes = "gone" /\ ~contents[c].damaged
          /\ contents[c].row = "live" => contents[c].bytes # "gone"
          /\ contents[c].bytes = "rotten" => c \in excused
          /\ contents[c].damaged => c \in excused
          /\ contents[c].verified <= contents[c].verified
  <1>1. contents[c] \in Row /\ evidence[c] \in Times
    BY RowsTyped DEF IInv, TypeOK, Times
  <1>2. contents[c].verified \in Times
    BY <1>1 DEF Row
  <1>3. evidence[c] \in Int /\ contents[c].verified \in Int
    BY <1>1, <1>2, TimesAreInts
  <1> QED
    BY <1>1, <1>2, <1>3 DEF IInv, TypeOK, RowsInOrder, RotIsExcused, DamageIsReal, Times

\* Steps that write nothing: bytes rot, a reader finds it, the last user of
\* content goes, and the bytes and the row after it; or another user comes.
LEMMA UnwrittenKeeps ==
    ASSUME ScrubAssumption, IInv, NEW c \in Content, NEW row \in Row, Becomes(c, row),
           UNCHANGED <<now, scrubber, evidence, forsaken>>,
           rots' \in 0..MaxRot, excused' \in {excused, excused \cup {c}},
           row.verified \in {contents[c].verified, Never},
           row.row # "absent" => Exists(c) /\ row.verified = contents[c].verified,
           row.row = "absent" => row.bytes = "gone" /\ ~row.damaged,
           row.row = "live" => row.bytes # "gone",
           row.bytes # "gone" => contents[c].bytes # "gone",
           row.bytes = "rotten" => contents[c].bytes = "rotten" \/ c \in excused',
           row.damaged => contents[c].damaged \/ c \in excused'
    PROVE IInv'
  <1>1. excused' \subseteq Content /\ excused \subseteq excused'
    BY DEF IInv, TypeOK
  <1>2. /\ evidence' \in [Content -> Times]
        /\ \A d \in Content \ {c} : evidence'[d] = evidence[d]
        /\ evidence[c] <= evidence'[c] /\ evidence'[c] <= now
    BY RowOf DEF IInv, TypeOK, Times
  <1>3. row.verified <= now
    <2>1. now \in Nat
      BY DEF IInv, TypeOK, Time, ScrubAssumption
    <2> QED
      BY <2>1, RowOf DEF Never
  <1>4. row.bytes = "rotten" => c \in excused'
    BY <1>1, RowOf
  <1>5. row.damaged => c \in excused'
    BY <1>1, RowOf
  <1> QED
    BY <1>1, <1>2, <1>3, <1>4, <1>5, OthersKeep

LEMMA RotKeeps ==
    ASSUME ScrubAssumption, IInv, NEW c \in Content, Rot(c)
    PROVE IInv'
  <1> DEFINE row == [contents[c] EXCEPT !.bytes = "rotten"]
  <1>1. contents[c].bytes = "sound" /\ Exists(c)
    BY RowOf DEF Rot
  <1>2. /\ row \in Row /\ row.verified = contents[c].verified /\ row.row = contents[c].row
        /\ row.damaged = contents[c].damaged /\ row.bytes = "rotten"
    BY RowOf DEF Row
  <1>3. rots' \in 0..MaxRot
    BY DEF Rot, IInv, TypeOK, ScrubAssumption
  <1>4. /\ Becomes(c, row) /\ excused' = excused \cup {c}
        /\ UNCHANGED <<now, scrubber, evidence, forsaken>>
    BY DEF Rot
  <1> HIDE DEF row
  <1>5. row.row # "absent"
    BY <1>1, <1>2 DEF Exists
  <1> QED
    BY <1>1, <1>2, <1>3, <1>4, <1>5, UnwrittenKeeps

\* A read that found damage found bytes that rotted.
LEMMA MarkXorbDamagedKeeps ==
    ASSUME ScrubAssumption, IInv, NEW c \in Content, MarkXorbDamaged(c)
    PROVE IInv'
  <1> DEFINE row == [contents[c] EXCEPT !.damaged = TRUE]
  <1>1. contents[c].row = "live" /\ contents[c].bytes = "rotten" /\ c \in excused
    BY RowOf DEF MarkXorbDamaged
  <1>2. /\ row \in Row /\ row.verified = contents[c].verified /\ row.row = "live"
        /\ row.bytes = "rotten"
    BY <1>1, RowOf DEF Row
  <1>3. Becomes(c, row) /\ UNCHANGED <<now, scrubber, histories>>
    BY DEF MarkXorbDamaged
  <1>4. UNCHANGED <<evidence, forsaken>> /\ excused' = excused /\ rots' \in 0..MaxRot
    BY <1>3 DEF histories, IInv, TypeOK
  <1> HIDE DEF row
  <1> QED
    BY <1>1, <1>2, <1>3, <1>4, UnwrittenKeeps DEF Exists

LEMMA ReleaseKeeps ==
    ASSUME ScrubAssumption, IInv, NEW c \in Content, Release(c)
    PROVE IInv'
  <1> DEFINE row == [contents[c] EXCEPT !.row = "unused"]
  <1>1. contents[c].row = "live"
    BY DEF Release
  <1>2. /\ row \in Row /\ row.verified = contents[c].verified /\ row.row = "unused"
        /\ row.bytes = contents[c].bytes /\ row.damaged = contents[c].damaged
    BY RowOf DEF Row
  <1>3. Becomes(c, row) /\ UNCHANGED <<now, scrubber, histories>>
    BY DEF Release
  <1>4. UNCHANGED <<evidence, forsaken>> /\ excused' = excused /\ rots' \in 0..MaxRot
    BY <1>3 DEF histories, IInv, TypeOK
  <1> HIDE DEF row
  <1> QED
    BY <1>1, <1>2, <1>3, <1>4, UnwrittenKeeps DEF Exists

LEMMA SweepBytesKeeps ==
    ASSUME ScrubAssumption, IInv, NEW c \in Content, SweepBytes(c)
    PROVE IInv'
  <1> DEFINE row == [contents[c] EXCEPT !.bytes = "gone"]
  <1>1. contents[c].row = "unused"
    BY DEF SweepBytes
  <1>2. /\ row \in Row /\ row.verified = contents[c].verified /\ row.row = "unused"
        /\ row.bytes = "gone" /\ row.damaged = contents[c].damaged
    BY <1>1, RowOf DEF Row
  <1>3. Becomes(c, row) /\ UNCHANGED <<now, scrubber, histories>>
    BY DEF SweepBytes
  <1>4. UNCHANGED <<evidence, forsaken>> /\ excused' = excused /\ rots' \in 0..MaxRot
    BY <1>3 DEF histories, IInv, TypeOK
  <1> HIDE DEF row
  <1> QED
    BY <1>1, <1>2, <1>3, <1>4, UnwrittenKeeps DEF Exists

LEMMA SweepRowKeeps ==
    ASSUME ScrubAssumption, IInv, NEW c \in Content, SweepRow(c)
    PROVE IInv'
  <1> DEFINE row == [row |-> "absent", verified |-> Never, damaged |-> FALSE, bytes |-> "gone"]
  <1>1. row \in Row /\ row.verified = Never /\ row.row = "absent" /\ row.bytes = "gone" /\ ~row.damaged
    BY DEF Row, Times
  <1>2. Becomes(c, row) /\ UNCHANGED <<now, scrubber, histories>>
    BY DEF SweepRow
  <1>3. UNCHANGED <<evidence, forsaken>> /\ excused' = excused /\ rots' \in 0..MaxRot
    BY <1>2 DEF histories, IInv, TypeOK
  <1> HIDE DEF row
  <1> QED
    BY <1>1, <1>2, <1>3, UnwrittenKeeps

\* A step that writes content anew excuses a check that goes on meanwhile.
LEMMA WrittenKeeps ==
    ASSUME ScrubAssumption, IInv, NEW c \in Content, NEW row \in Row, Becomes(c, row), Written(c),
           row.row = "live", row.bytes = "sound",
           row.damaged => contents[c].damaged,
           row.verified \in {now, contents[c].verified}
    PROVE IInv'
  <1>1. /\ contents[c].verified \in Int /\ now \in Int /\ contents[c].verified <= now
        /\ evidence[c] \in Times /\ now \in Times /\ evidence[c] <= now
    BY RowOf, TimesAreInts
  <1>2. row.verified <= now /\ now <= now
    BY <1>1
  <1>3. /\ evidence' = [evidence EXCEPT ![c] = now]
        /\ UNCHANGED <<now, scrubber, rots, forsaken>>
    BY DEF Written
  <1>4. /\ evidence' \in [Content -> Times] /\ evidence'[c] = now
        /\ \A d \in Content \ {c} : evidence'[d] = evidence[d]
    BY <1>1, <1>3 DEF IInv, TypeOK, Times
  <1>5. now >= row.verified
    BY <1>1, <1>2
  <1>6. /\ excused' \subseteq Content /\ rots' \in 0..MaxRot
        /\ \A d \in Content \ {c} : d \in excused => d \in excused'
        /\ Claims(c) = {} \/ c \in excused'
    BY <1>3 DEF Written, IInv, TypeOK
  <1>7. row.damaged => c \in excused'
    BY RowOf DEF Written
  <1> QED
    BY <1>1, <1>2, <1>3, <1>4, <1>5, <1>6, <1>7, OthersKeep

LEMMA CommitKeeps ==
    ASSUME ScrubAssumption, IInv, NEW c \in Content, Commit(c)
    PROVE IInv'
  <1>1. CASE /\ contents[c].row = "absent"
             /\ Becomes(c, [row |-> "live", verified |-> now, damaged |-> FALSE, bytes |-> "sound"])
             /\ Written(c)
    <2> DEFINE row == [row |-> "live", verified |-> now, damaged |-> FALSE, bytes |-> "sound"]
    <2>1. /\ row \in Row /\ row.row = "live" /\ row.bytes = "sound" /\ ~row.damaged
          /\ row.verified = now
      BY RowOf DEF Row
    <2>2. Becomes(c, row) /\ Written(c)
      BY <1>1
    <2> HIDE DEF row
    <2> QED
      BY <2>1, <2>2, WrittenKeeps
  <1>2. CASE /\ contents[c].row = "unused" /\ contents[c].bytes = "gone"
             /\ Becomes(c, [contents[c] EXCEPT !.row = "live", !.bytes = "sound"])
             /\ Written(c)
    <2> DEFINE row == [contents[c] EXCEPT !.row = "live", !.bytes = "sound"]
    <2>1. /\ row \in Row /\ row.row = "live" /\ row.bytes = "sound"
          /\ row.damaged = contents[c].damaged /\ row.verified = contents[c].verified
      BY RowOf DEF Row
    <2>2. Becomes(c, row) /\ Written(c)
      BY <1>2
    <2> HIDE DEF row
    <2> QED
      BY <2>1, <2>2, WrittenKeeps
  <1>3. CASE /\ contents[c].row = "unused" /\ contents[c].bytes # "gone"
             /\ Becomes(c, [contents[c] EXCEPT !.row = "live"])
             /\ UNCHANGED <<now, scrubber, histories>>
    <2> DEFINE row == [contents[c] EXCEPT !.row = "live"]
    <2>1. /\ row \in Row /\ row.row = "live" /\ row.bytes = contents[c].bytes
          /\ row.damaged = contents[c].damaged /\ row.verified = contents[c].verified
      BY RowOf DEF Row
    <2>2. /\ Becomes(c, row) /\ UNCHANGED <<now, scrubber, evidence, forsaken>>
          /\ excused' = excused /\ rots' \in 0..MaxRot
      BY <1>3 DEF histories, IInv, TypeOK
    <2> HIDE DEF row
    <2> QED
      BY <1>3, <2>1, <2>2, UnwrittenKeeps DEF Exists
  <1> QED
    BY <1>1, <1>2, <1>3 DEF Commit

LEMMA RepairKeeps ==
    ASSUME ScrubAssumption, IInv, NEW c \in Content, Repair(c)
    PROVE IInv'
  <1> DEFINE row == [row |-> "live", bytes |-> "sound", damaged |-> FALSE,
                     verified |-> IF contents[c].damaged THEN now ELSE contents[c].verified]
  <1>1. /\ row \in Row /\ row.row = "live" /\ row.bytes = "sound" /\ ~row.damaged
        /\ row.verified \in {now, contents[c].verified}
    BY RowOf DEF Row
  <1>2. Becomes(c, row) /\ Written(c)
    BY DEF Repair
  <1> HIDE DEF row
  <1> QED
    BY <1>1, <1>2, WrittenKeeps

LEMMA TickKeeps ==
    ASSUME ScrubAssumption, IInv, Tick
    PROVE IInv'
  <1>1. now \in Nat /\ now' = now + 1 /\ now' \in Time
    BY DEF Tick, IInv, TypeOK, Time, ScrubAssumption
  <1>2. now \in Time /\ now' \in Time /\ now <= now'
    BY <1>1 DEF IInv, TypeOK
  <1>3. UNCHANGED <<contents, scrubber, rots, evidence, forsaken, excused>>
    BY DEF Tick, histories
  <1>4. ScrubsTyped' /\ TypeOK'
    <2>1. ScrubsTyped'
      BY <1>3 DEF IInv, ScrubsTyped
    <2> QED
      BY <1>1, <1>3, <2>1 DEF IInv, TypeOK
  <1>5. \A time \in Times : time <= now => time <= now'
    BY <1>1, TimesAreInts
  <1>6. RowsInOrder'
    BY <1>3, <1>5, RowOf DEF IInv, RowsInOrder, Exists
  <1>7. ClaimsGiveBackDue'
    <2> SUFFICES ASSUME NEW s \in Scrubber PROVE GivesBackDue(s)'
      BY DEF ClaimsGiveBackDue, GivesBackDue
    <2>1. scrubber[s].verified \in Times /\ GivesBackDue(s)
      BY ClaimsTyped, Parts DEF IInv
    <2>2. DueSince(scrubber[s].verified)'
      <3> DEFINE v == scrubber[s].verified
      <3>1. v \in Times /\ DueSince(v)
        BY <2>1 DEF GivesBackDue
      <3> QED
        BY <1>2, <1>3, <3>1, DueStays
    <2> QED
      BY <1>3, <1>5, <2>1, <2>2 DEF GivesBackDue
  <1>8. ChecksAccountedFor'
    <2> SUFFICES ASSUME NEW c \in Content PROVE Accounted(c)'
      BY DEF ChecksAccountedFor, Accounted
    <2>1. Accounted(c) /\ Exists(c)' = Exists(c) /\ Claims(c)' = Claims(c)
      BY <1>3, Parts DEF IInv, Exists, Claims
    <2> QED
      BY <1>2, <1>3, <1>4, <2>1, RowOf, AccountedStays DEF IInv
  <1>9. ChecksAreExcused' /\ RotIsExcused' /\ DamageIsReal'
    BY <1>3 DEF IInv, ChecksAreExcused, RotIsExcused, DamageIsReal, Exists
  <1> QED
    BY <1>4, <1>6, <1>7, <1>8, <1>9 DEF IInv

----------------------------------------------------------------------------
(* A scrub. *)

\* A claim of content that is due is in time, and gives back what was due.
LEMMA ClaimScrubKeeps ==
    ASSUME ScrubAssumption, IInv, NEW s \in Scrubber, NEW c \in Content, ClaimScrub(s, c)
    PROVE IInv'
  <1> DEFINE row == [contents[c] EXCEPT !.verified = now]
             claim == [pc |-> "rows", content |-> c, verified |-> contents[c].verified, at |-> now]
  <1>1. /\ row \in Row /\ row.verified = now /\ row.row = contents[c].row
        /\ row.bytes = contents[c].bytes /\ row.damaged = contents[c].damaged
    BY RowOf DEF Row
  <1>2. /\ claim \in Claim /\ claim.pc = "rows" /\ claim.content = c /\ claim.at = now
        /\ claim.verified = contents[c].verified
    BY RowOf DEF Claim
  <1>3. /\ scrubber[s] = NoCheck /\ Due(c)
        /\ scrubber' = [scrubber EXCEPT ![s] = claim]
        /\ Becomes(c, row)
        /\ UNCHANGED <<now, rots, evidence, forsaken, excused>>
    BY DEF ClaimScrub, histories
  <1> HIDE DEF row, claim
  <1>4. /\ contents' \in [Content -> Row] /\ contents'[c] = row
        /\ \A d \in Content \ {c} : contents'[d] = contents[d]
        /\ \A d \in Content : contents'[d].row = "live" => contents'[d].bytes # "gone"
    BY <1>1, <1>3, RowOf, BecomesTyped DEF IInv
  <1>5. /\ scrubber' \in [Scrubber -> Claim \cup {NoCheck}] /\ scrubber'[s] = claim
        /\ \A t \in Scrubber \ {s} : scrubber'[t] = scrubber[t]
    BY <1>2, <1>3 DEF IInv, ScrubsTyped
  <1>6. ScrubsTyped'
    BY <1>3, <1>5 DEF IInv, ScrubsTyped
  <1>7. TypeOK'
    BY <1>3, <1>4, <1>6, Typed DEF IInv, TypeOK, Times
  <1>8. now \in Int /\ now <= now
    BY RowOf, TimesAreInts
  <1>9. \A d \in Content : Exists(d)' <=> Exists(d)
    BY <1>1, <1>4 DEF Exists
  <1>10. RowsInOrder'
    BY <1>1, <1>3, <1>4, <1>8, <1>9 DEF IInv, RowsInOrder
  <1>11. ClaimsGiveBackDue'
    <2>1. contents[c].verified <= now /\ DueSince(contents[c].verified)
      BY <1>3, RowOf DEF Due, DueSince
    <2> QED
      BY <1>2, <1>3, <1>5, <2>1 DEF IInv, ClaimsGiveBackDue, DueSince
  <1>12. ChecksAccountedFor'
    <2> SUFFICES ASSUME NEW d \in Content PROVE Accounted(d)'
      BY DEF ChecksAccountedFor, Accounted
    <2>1. CASE d = c
      <3>1. s \in Claims(c)' /\ scrubber'[s].at = contents'[c].verified
        BY <1>1, <1>2, <1>4, <1>5 DEF Claims
      <3> QED
        BY <2>1, <3>1 DEF Accounted
    <2>2. CASE d # c
      <3>1. \A t \in Claims(d) : t # s => t \in Claims(d)' /\ scrubber'[t].at = scrubber[t].at
        BY <1>5 DEF Claims
      <3>2. s \notin Claims(d)
        BY <1>3 DEF Claims, NoCheck, ScrubAssumption
      <3>3. Accounted(d)
        BY Parts DEF IInv
      <3> QED
        BY <1>3, <1>4, <1>7, <1>8, <1>9, <2>2, <3>1, <3>2, <3>3, RowOf, AccountedStays DEF IInv
    <2> QED
      BY <2>1, <2>2
  <1>13. ChecksAreExcused'
    <2> SUFFICES ASSUME NEW t \in Scrubber PROVE Excused(t)'
      BY DEF ChecksAreExcused, Excused
    <2>1. CASE t = s
      BY <1>2, <1>5, <2>1 DEF Excused
    <2>2. CASE t # s
      <3>1. Excused(t) /\ scrubber'[t] = scrubber[t]
        BY <1>5, <2>2, Parts DEF IInv
      <3>2. scrubber[t].pc # "idle" => scrubber[t].content \in Content
        BY ClaimsTyped DEF IInv
      <3>3. \A d \in Content : contents'[d].bytes = contents[d].bytes
        BY <1>1, <1>4
      <3> QED
        BY <1>3, <1>9, <3>1, <3>2, <3>3, ExcusedStays
    <2> QED
      BY <2>1, <2>2
  <1>14. RotIsExcused' /\ DamageIsReal'
    BY <1>1, <1>3, <1>4 DEF IInv, RotIsExcused, DamageIsReal
  <1> QED
    BY <1>6, <1>7, <1>10, <1>11, <1>12, <1>13, <1>14 DEF IInv

\* A check that goes on changes nothing but itself.
LEMMA CheckGoes ==
    ASSUME ScrubAssumption, IInv, NEW s \in Scrubber, scrubber[s].pc # "idle",
           NEW pc \in {"rows", "norows", "bytes", "gone", "sound", "unsound"}, Goes(s, pc),
           UNCHANGED <<now, contents, rots, evidence, forsaken, excused>>,
           LET c == scrubber[s].content IN
           /\ pc = "norows" => c \in excused \/ ~Exists(c)
           /\ pc = "gone" => c \in excused \/ contents[c].bytes = "gone"
           /\ pc = "unsound" => c \in excused
    PROVE IInv'
  <1>1. /\ scrubber' \in [Scrubber -> Claim \cup {NoCheck}]
        /\ scrubber'[s].pc = pc /\ \A t \in Scrubber \ {s} : scrubber'[t] = scrubber[t]
        /\ \A t \in Scrubber : /\ scrubber'[t].content = scrubber[t].content
                               /\ scrubber'[t].at = scrubber[t].at
                               /\ scrubber'[t].verified = scrubber[t].verified
        /\ \A c \in Content : Claims(c)' = Claims(c)
    BY GoesTyped DEF IInv
  <1>2. ScrubsTyped'
    BY <1>1 DEF IInv, ScrubsTyped
  <1>3. TypeOK'
    BY <1>2, RowsTyped, Typed DEF IInv, TypeOK, Times
  <1>4. RowsInOrder' /\ RotIsExcused' /\ DamageIsReal'
    BY DEF IInv, RowsInOrder, RotIsExcused, DamageIsReal, Exists
  <1>5. ClaimsGiveBackDue'
    BY <1>1 DEF IInv, ClaimsGiveBackDue, DueSince
  <1>6. ChecksAccountedFor'
    <2> SUFFICES ASSUME NEW d \in Content PROVE Accounted(d)'
      BY DEF ChecksAccountedFor, Accounted
    <2>1. \A t \in Claims(d) : t \in Scrubber
      BY DEF Claims
    <2>2. Accounted(d) /\ Exists(d)' = Exists(d) /\ now <= now'
      BY Parts DEF IInv, Exists, TypeOK, Time, ScrubAssumption
    <2> QED
      BY <1>1, <1>3, <2>1, <2>2, RowOf, AccountedStays DEF IInv
  <1>7. ChecksAreExcused'
    <2> SUFFICES ASSUME NEW t \in Scrubber PROVE Excused(t)'
      BY DEF ChecksAreExcused, Excused
    <2>1. CASE t = s
      BY <1>1, <2>1 DEF Excused, Exists
    <2>2. CASE t # s
      <3>1. Excused(t) /\ scrubber'[t] = scrubber[t]
        BY <1>1, <2>2, Parts DEF IInv
      <3> QED
        BY <3>1 DEF Excused, Exists
    <2> QED
      BY <2>1, <2>2
  <1> QED
    BY <1>2, <1>3, <1>4, <1>5, <1>6, <1>7 DEF IInv

\* A check that ends leaves its content accounted for if it found it, gives it
\* back as due, or is known to be lost.
LEMMA CheckEnds ==
    ASSUME ScrubAssumption, IInv, NEW s \in Scrubber, NEW c \in Content,
           scrubber[s].pc # "idle", c = scrubber[s].content,
           Ends(s), NEW row \in Row, Becomes(c, row), UNCHANGED <<now, rots, excused>>,
           forsaken' \in [Content -> SUBSET Times], \A d \in Content : forsaken[d] \subseteq forsaken'[d],
           evidence' \in [Content -> Times], \A d \in Content \ {c} : evidence'[d] = evidence[d],
           evidence[c] <= evidence'[c], evidence'[c] <= now,
           row.row = contents[c].row, row.bytes = contents[c].bytes, row.verified <= now,
           row.damaged => c \in excused, ~Exists(c) => ~row.damaged,
           Exists(c) => \/ DueSince(row.verified)
                        \/ evidence'[c] >= row.verified
                        \/ row.verified = contents[c].verified /\ scrubber[s].at \in forsaken'[c]
    PROVE IInv'
  <1>1. row.row = "live" => row.bytes # "gone"
    BY RowOf
  <1>2. /\ contents' \in [Content -> Row] /\ contents'[c] = row
        /\ \A d \in Content \ {c} : contents'[d] = contents[d]
        /\ \A d \in Content : contents'[d].row = "live" => contents'[d].bytes # "gone"
    BY <1>1, BecomesTyped DEF IInv
  <1>3. /\ scrubber' \in [Scrubber -> Claim \cup {NoCheck}] /\ scrubber'[s] = NoCheck
        /\ \A t \in Scrubber \ {s} : scrubber'[t] = scrubber[t]
        /\ \A d \in Content : Claims(d) \ {s} \subseteq Claims(d)'
    BY EndsTyped DEF IInv
  <1>4. ScrubsTyped'
    BY <1>3 DEF ScrubsTyped
  <1>5. TypeOK'
    BY <1>2, <1>4, Typed DEF IInv, TypeOK
  <1>6. \A d \in Content : (Exists(d)' <=> Exists(d)) /\ contents'[d].bytes = contents[d].bytes
    BY <1>2 DEF Exists
  <1>7. RowsInOrder'
    BY <1>2, <1>6, RowOf DEF IInv, RowsInOrder
  <1>8. ClaimsGiveBackDue'
    <2>1. Never <= now
      BY DEF IInv, TypeOK, Time, ScrubAssumption, Never
    <2> QED
      BY <1>3, <2>1 DEF IInv, ClaimsGiveBackDue, DueSince, NoCheck, Never
  <1>9. now <= now'
    BY DEF IInv, TypeOK, Time, ScrubAssumption
  <1>10. ChecksAccountedFor'
    <2> SUFFICES ASSUME NEW d \in Content PROVE Accounted(d)'
      BY DEF ChecksAccountedFor, Accounted
    <2>1. Accounted(d)
      BY Parts DEF IInv
    <2>2. \A t \in Claims(d) : t # s => t \in Claims(d)' /\ scrubber'[t].at = scrubber[t].at
      BY <1>3 DEF Claims
    <2>3. CASE d # c
      <3>1. s \notin Claims(d)
        BY <2>3 DEF Claims
      <3> QED
        BY <1>2, <1>5, <1>6, <1>9, <2>1, <2>2, <2>3, <3>1, RowOf, AccountedStays DEF IInv
    <2>4. CASE d = c /\ row.verified = contents[c].verified /\ scrubber[s].at \in forsaken'[c]
      BY <1>2, <1>5, <1>6, <1>9, <2>1, <2>2, <2>4, AccountedStays DEF IInv
    <2>5. CASE d = c /\ (~Exists(c) \/ DueSince(row.verified))
      BY <1>2, <1>6, <2>5 DEF Accounted, DueSince, Never
    <2>6. CASE d = c /\ evidence'[c] >= row.verified
      BY <1>2, <2>6 DEF Accounted
    <2> QED
      BY <2>3, <2>4, <2>5, <2>6
  <1>11. ChecksAreExcused'
    <2> SUFFICES ASSUME NEW t \in Scrubber PROVE Excused(t)'
      BY DEF ChecksAreExcused, Excused
    <2>1. CASE t = s
      BY <1>3, <2>1 DEF Excused, NoCheck
    <2>2. CASE t # s
      <3>1. Excused(t) /\ scrubber'[t] = scrubber[t]
        BY <1>3, <2>2, Parts DEF IInv
      <3>2. scrubber[t].pc # "idle" => scrubber[t].content \in Content
        BY ClaimsTyped DEF IInv
      <3> QED
        BY <1>6, <3>1, <3>2, ExcusedStays
    <2> QED
      BY <2>1, <2>2
  <1>12. RotIsExcused' /\ DamageIsReal'
    BY <1>2, <1>6 DEF IInv, RotIsExcused, DamageIsReal
  <1> QED
    BY <1>4, <1>5, <1>7, <1>8, <1>10, <1>11, <1>12 DEF IInv

\* What the rows say: content that has none is not live.
LEMMA ReadRowsKeeps ==
    ASSUME ScrubAssumption, IInv, NEW s \in Scrubber, ReadRows(s)
    PROVE IInv'
  <1> DEFINE c == scrubber[s].content
             pc == IF c \in Wholes \/ Exists(c) THEN "bytes" ELSE "norows"
  <1>1. /\ scrubber[s].pc = "rows" /\ Goes(s, pc)
        /\ UNCHANGED <<now, contents, rots, evidence, forsaken, excused>>
    BY DEF ReadRows, histories
  <1>2. pc \in {"bytes", "norows"} /\ (pc = "norows" => ~Exists(c))
    OBVIOUS
  <1> HIDE DEF pc
  <1> QED
    BY <1>1, <1>2, CheckGoes

\* What the bytes say: they are unsound if they rotted, or if content that had
\* no rows was written since.
LEMMA ReadBytesKeeps ==
    ASSUME ScrubAssumption, IInv, NEW s \in Scrubber, ReadBytes(s)
    PROVE IInv'
  <1> DEFINE c == scrubber[s].content
             bytes == contents[c].bytes
             pc == CASE bytes = "gone" -> "gone"
                     [] bytes = "sound" /\ scrubber[s].pc = "bytes" -> "sound"
                     [] OTHER -> "unsound"
  <1>1. /\ scrubber[s].pc \in {"bytes", "norows"} /\ Goes(s, pc)
        /\ UNCHANGED <<now, contents, rots, evidence, forsaken, excused>>
    BY DEF ReadBytes, histories
  <1>2. c \in Content
    BY <1>1, ClaimsTyped DEF IInv, NoCheck
  <1>3. Excused(s) /\ bytes \in {"sound", "rotten", "gone"}
    BY <1>2, RowOf, Parts DEF IInv, Row
  <1>4. CASE bytes = "gone"
    <2>1. pc = "gone"
      BY <1>4
    <2> HIDE DEF pc
    <2> QED
      BY <1>1, <1>4, <2>1, CheckGoes
  <1>5. CASE bytes = "sound" /\ scrubber[s].pc = "bytes"
    <2>1. pc = "sound"
      BY <1>5
    <2> HIDE DEF pc
    <2> QED
      BY <1>1, <2>1, CheckGoes
  <1>6. CASE bytes = "rotten" \/ (bytes = "sound" /\ scrubber[s].pc = "norows")
    <2>1. pc = "unsound"
      BY <1>6
    <2>2. c \in excused
      BY <1>2, <1>3, <1>6, RowOf DEF Excused
    <2> HIDE DEF pc
    <2> QED
      BY <1>1, <2>1, <2>2, CheckGoes
  <1> QED
    BY <1>1, <1>3, <1>4, <1>5, <1>6

\* A claim that ends with nothing recorded is lost.
LEMMA LostClaimKeeps ==
    ASSUME ScrubAssumption, IInv, NEW s \in Scrubber, scrubber[s].pc # "idle", Ends(s), Forsake(s),
           UNCHANGED <<now, contents, rots, evidence, excused>>
    PROVE IInv'
  <1> DEFINE c == scrubber[s].content
             row == contents[c]
  <1>1. c \in Content /\ scrubber[s].at \in Times
    BY ClaimsTyped DEF IInv
  <1>2. /\ row \in Row /\ row.verified <= now /\ (row.damaged => c \in excused)
        /\ (~Exists(c) => ~row.damaged) /\ evidence[c] <= evidence'[c] /\ evidence'[c] <= now
    BY <1>1, RowOf
  <1>3. Becomes(c, row)
    BY <1>1, RowsTyped DEF IInv, Becomes
  <1>4. /\ forsaken' \in [Content -> SUBSET Times]
        /\ \A d \in Content : forsaken[d] \subseteq forsaken'[d]
        /\ scrubber[s].at \in forsaken'[c]
    BY <1>1 DEF Forsake, IInv, ScrubsTyped
  <1>5. evidence' \in [Content -> Times]
    BY DEF IInv, TypeOK, Times
  <1>6. Exists(c) => \/ DueSince(row.verified)
                     \/ evidence'[c] >= row.verified
                     \/ row.verified = contents[c].verified /\ scrubber[s].at \in forsaken'[c]
    BY <1>4
  <1>7. row.row = contents[c].row /\ row.bytes = contents[c].bytes
    OBVIOUS
  <1> HIDE DEF row
  <1> QED
    BY <1>1, <1>2, <1>3, <1>4, <1>5, <1>6, <1>7, CheckEnds

LEMMA LoseClaimKeeps ==
    ASSUME ScrubAssumption, IInv, NEW s \in Scrubber, LoseClaim(s)
    PROVE IInv'
  BY LostClaimKeeps DEF LoseClaim

\* What is missing and live was written since it was missed.
LEMMA ContentLiveKeeps ==
    ASSUME ScrubAssumption, IInv, NEW s \in Scrubber, ContentLive(s)
    PROVE IInv'
  <1> DEFINE c == scrubber[s].content
  <1>1. /\ scrubber[s].pc = "gone" /\ c \in Content /\ Excused(s)
        /\ UNCHANGED <<now, contents, rots, evidence, excused>>
    BY ClaimsTyped, Parts DEF ContentLive, IInv, NoCheck
  <1>2. CASE contents[c].row = "live"
    <2>1. c \in excused
      BY <1>1, <1>2, RowOf DEF Excused
    <2>2. Goes(s, "unsound") /\ UNCHANGED forsaken
      BY <1>2 DEF ContentLive
    <2> QED
      BY <1>1, <2>1, <2>2, CheckGoes
  <1>3. CASE contents[c].row # "live"
    BY <1>1, <1>3, LostClaimKeeps DEF ContentLive
  <1> QED
    BY <1>2, <1>3

\* What was found is recorded, and is the evidence of what was there before.
LEMMA RecordScrubKeeps ==
    ASSUME ScrubAssumption, IInv, NEW s \in Scrubber, RecordScrub(s)
    PROVE IInv'
  <1> DEFINE c == scrubber[s].content
             sound == [contents[c] EXCEPT !.verified = now, !.damaged = FALSE]
             unsound == [contents[c] EXCEPT !.damaged = TRUE]
             row == IF ~Exists(c) THEN contents[c]
                    ELSE IF scrubber[s].pc = "sound" THEN sound ELSE unsound
  <1>1. /\ scrubber[s].pc \in {"sound", "unsound"} /\ c \in Content /\ Excused(s)
        /\ Becomes(c, row) /\ Ends(s)
        /\ evidence' = [evidence EXCEPT ![c] = now]
        /\ UNCHANGED <<now, rots, forsaken, excused>>
    BY ClaimsTyped, Parts DEF RecordScrub, IInv, NoCheck
  <1>2. /\ contents[c] \in Row /\ contents[c].verified <= now /\ evidence[c] <= now
        /\ (~Exists(c) => ~contents[c].damaged)
        /\ now \in Times /\ contents[c].verified \in Times
    BY <1>1, RowOf
  <1>3. now \in Int /\ contents[c].verified \in Int
    BY <1>2, TimesAreInts
  <1>4. /\ row \in Row /\ row.row = contents[c].row /\ row.bytes = contents[c].bytes
        /\ row.verified \in {now, contents[c].verified}
        /\ (~Exists(c) => ~row.damaged)
        /\ (row.damaged => scrubber[s].pc = "unsound")
    <2>1. /\ sound \in Row /\ sound.row = contents[c].row /\ sound.bytes = contents[c].bytes
          /\ sound.verified = now /\ ~sound.damaged
      BY <1>2 DEF Row
    <2>2. /\ unsound \in Row /\ unsound.row = contents[c].row /\ unsound.bytes = contents[c].bytes
          /\ unsound.verified = contents[c].verified
      BY <1>2 DEF Row
    <2> HIDE DEF sound, unsound
    <2> QED
      BY <1>1, <1>2, <2>1, <2>2
  <1> HIDE DEF row
  <1>5. row.damaged => c \in excused
    BY <1>1, <1>4 DEF Excused
  <1>6. /\ evidence' \in [Content -> Times] /\ evidence'[c] = now
        /\ \A d \in Content \ {c} : evidence'[d] = evidence[d]
    BY <1>1, <1>2 DEF IInv, TypeOK, Times
  <1>7. row.verified <= now /\ now >= row.verified /\ now <= now
    BY <1>2, <1>3, <1>4
  <1>8. forsaken' \in [Content -> SUBSET Times] /\ \A d \in Content : forsaken[d] \subseteq forsaken'[d]
    BY <1>1 DEF IInv, ScrubsTyped
  <1> QED
    BY <1>1, <1>2, <1>4, <1>5, <1>6, <1>7, <1>8, CheckEnds

\* A claim that is given back leaves its content due, whoever claimed it since.
LEMMA RequeueScrubKeeps ==
    ASSUME ScrubAssumption, IInv, NEW s \in Scrubber, RequeueScrub(s)
    PROVE IInv'
  <1> DEFINE c == scrubber[s].content
             back == [contents[c] EXCEPT !.verified = scrubber[s].verified]
             row == IF Exists(c) THEN back ELSE contents[c]
  <1>1. /\ scrubber[s].pc # "idle" /\ c \in Content
        /\ scrubber[s].verified \in Times
        /\ scrubber[s].verified <= now /\ DueSince(scrubber[s].verified)
    BY ClaimsTyped DEF RequeueScrub, IInv, ClaimsGiveBackDue, NoCheck
  <1>2. /\ Becomes(c, row) /\ Ends(s)
        /\ UNCHANGED <<now, rots, evidence, forsaken, excused>>
    BY DEF RequeueScrub, histories
  <1>3. /\ contents[c] \in Row /\ contents[c].verified <= now
        /\ evidence[c] <= evidence[c] /\ evidence[c] <= now
        /\ (~Exists(c) => ~contents[c].damaged) /\ (contents[c].damaged => c \in excused)
    BY <1>1, RowOf
  <1>4. /\ row \in Row /\ row.row = contents[c].row /\ row.bytes = contents[c].bytes
        /\ row.damaged = contents[c].damaged
        /\ row.verified <= now /\ (Exists(c) => DueSince(row.verified))
    <2>1. /\ back \in Row /\ back.row = contents[c].row /\ back.bytes = contents[c].bytes
          /\ back.damaged = contents[c].damaged /\ back.verified = scrubber[s].verified
      BY <1>1, <1>3 DEF Row
    <2> HIDE DEF back
    <2> QED
      BY <1>1, <1>3, <2>1
  <1> HIDE DEF row
  <1>5. /\ evidence' \in [Content -> Times]
        /\ forsaken' \in [Content -> SUBSET Times] /\ \A d \in Content : forsaken[d] \subseteq forsaken'[d]
    BY <1>2 DEF IInv, ScrubsTyped, TypeOK, Times
  <1> QED
    BY <1>1, <1>2, <1>3, <1>4, <1>5, CheckEnds

----------------------------------------------------------------------------
(* The invariant. *)

LEMMA InitHolds == ScrubAssumption /\ Init => IInv
  <1> SUFFICES ASSUME ScrubAssumption, Init PROVE IInv
    OBVIOUS
  <1>1. /\ now = 0 /\ rots = 0 /\ excused = {}
        /\ 0 \in Time /\ 0 \in 0..MaxRot /\ Never <= 0
    BY DEF Init, ScrubAssumption, Time, Never
  <1>2. ScrubsTyped
    BY DEF Init, ScrubsTyped
  <1>3. TypeOK
    BY <1>1 DEF Init, TypeOK, NoCheck
  <1>4. RowsInOrder
    BY <1>1 DEF Init, RowsInOrder, Exists
  <1>5. ClaimsGiveBackDue
    BY <1>1 DEF Init, ClaimsGiveBackDue, DueSince, NoCheck
  <1>6. ChecksAccountedFor
    BY DEF Init, ChecksAccountedFor, DueSince
  <1>7. ChecksAreExcused
    BY DEF Init, ChecksAreExcused, NoCheck
  <1>8. RotIsExcused /\ DamageIsReal
    BY DEF Init, RotIsExcused, DamageIsReal
  <1> QED
    BY <1>2, <1>3, <1>4, <1>5, <1>6, <1>7, <1>8 DEF IInv

LEMMA StutterKeeps == ASSUME IInv, UNCHANGED vars PROVE IInv'
  <1>1. UNCHANGED <<now, contents, scrubber, rots, evidence, forsaken, excused>>
    BY DEF vars, histories
  <1>2. TypeOK' /\ ScrubsTyped' /\ RowsInOrder' /\ ClaimsGiveBackDue'
    BY <1>1 DEF IInv, TypeOK, ScrubsTyped, RowsInOrder, ClaimsGiveBackDue, Exists, DueSince
  <1>3. ChecksAccountedFor' /\ ChecksAreExcused' /\ RotIsExcused' /\ DamageIsReal'
    BY <1>1 DEF IInv, ChecksAccountedFor, ChecksAreExcused, RotIsExcused, DamageIsReal,
                Exists, DueSince, Claims
  <1> QED
    BY <1>2, <1>3 DEF IInv

LEMMA NextKeeps ==
    ASSUME ScrubAssumption, IInv, Next
    PROVE IInv'
  <1>1. CASE \E s \in Scrubber :
                \/ \E c \in Content : ClaimScrub(s, c)
                \/ ReadRows(s)
                \/ ReadBytes(s)
                \/ ContentLive(s)
    BY <1>1, ClaimScrubKeeps, ReadRowsKeeps, ReadBytesKeeps, ContentLiveKeeps
  <1>2. CASE \E s \in Scrubber : RecordScrub(s) \/ RequeueScrub(s) \/ LoseClaim(s)
    BY <1>2, RecordScrubKeeps, RequeueScrubKeeps, LoseClaimKeeps
  <1>3. CASE \E c \in Content : Rot(c) \/ MarkXorbDamaged(c) \/ Release(c)
    BY <1>3, RotKeeps, MarkXorbDamagedKeeps, ReleaseKeeps
  <1>4. CASE \E c \in Content : SweepBytes(c) \/ SweepRow(c) \/ Commit(c) \/ Repair(c)
    BY <1>4, SweepBytesKeeps, SweepRowKeeps, CommitKeeps, RepairKeeps
  <1>5. CASE Tick \/ Rest
    BY <1>5, TickKeeps, StutterKeeps DEF Rest
  <1> QED
    BY <1>1, <1>2, <1>3, <1>4, <1>5 DEF Next

\* Scrubs, whatever is written, collected or rots under them and however they
\* end, keep the invariant.
THEOREM ScrubInvariantHolds == ASSUME ScrubAssumption PROVE Spec => []IInv
  <1>1. Init => IInv
    BY InitHolds
  <1>2. IInv /\ [Next]_vars => IInv'
    BY NextKeeps, StutterKeeps
  <1> QED
    BY <1>1, <1>2, PTL DEF Spec

\* Contents, claims and what is remembered of them keep their types, and live
\* content has its row and its bytes.
THEOREM ScrubTypeCorrect == ASSUME ScrubAssumption PROVE Spec => []TypeOK
  <1>1. IInv => TypeOK
    BY DEF IInv
  <1> QED
    BY <1>1, ScrubInvariantHolds, PTL

\* What is not due was checked or written when it says, unless its check goes on
\* or was lost; and what is recorded as damaged was unsound, or written again
\* under its check (ClaimScrub, RequeueScrub, RecordScrub, ContentLive).
THEOREM ScrubsStayTruthful == ASSUME ScrubAssumption PROVE Spec => []ScrubsAreTruthful
  <1>1. ASSUME IInv PROVE VerifiedMeansChecked
    <2> SUFFICES ASSUME NEW c \in Content, contents[c].row = "live", ~Due(c)
                 PROVE \/ evidence[c] >= contents[c].verified
                       \/ \E s \in Claims(c) : scrubber[s].at = contents[c].verified
                       \/ contents[c].verified \in forsaken[c]
      BY DEF VerifiedMeansChecked
    <2>1. Exists(c) /\ ~DueSince(contents[c].verified)
      BY DEF Due, Exists, DueSince
    <2> QED
      BY <1>1, <2>1 DEF IInv, ChecksAccountedFor
  <1>2. IInv => ScrubsAreTruthful
    BY <1>1 DEF IInv, ScrubsAreTruthful
  <1> QED
    BY <1>2, ScrubInvariantHolds, PTL

=============================================================================
