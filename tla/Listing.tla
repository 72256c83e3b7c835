------------------------------- MODULE Listing -------------------------------
(***************************************************************************)
(* Listing the keys of a namespace (internal/db/object.go, ListObjects;    *)
(* internal/s3/s3.go and internal/api/api.go, listObjects): a client asks  *)
(* for page after page, each made of several queries, while keys are put   *)
(* and deleted between the queries.                                        *)
(*                                                                         *)
(* A byte is a number and a key a sequence of them; keys are ordered as    *)
(* COLLATE "C" orders them, byte by byte.                                  *)
(***************************************************************************)
EXTENDS Integers, SequencesExt

CONSTANTS
    Key,        \* keys that may be stored
    Prefix,     \* prefixes that may be asked for
    Delimiter,  \* delimiters that may be asked for, 0 for none
    After,      \* where a listing may start: a key, or <<>>
    MaxKeys,    \* entries that may be asked for in a page
    Batch,      \* rows a query returns (listBatch)
    Changes     \* puts and deletes while a client lists (bounds the model)

VARIABLES
    stored,     \* the keys of the namespace
    query,      \* what the client asks for
    scan,       \* the call in progress: its place, and what it found
    listed,     \* the entries of the pages the client has
    stayed,     \* the keys that were stored since the client began
    seen,       \* the keys that were stored at any time since then
    changes     \* puts and deletes so far

client == <<query, listed>>
vars == <<stored, client, scan, stayed, seen, changes>>

NoQuery == [prefix |-> <<>>, delimiter |-> 0, after |-> <<>>]
NoScan == [pc |-> "idle", marker |-> <<>>, maxKeys |-> 1, entries |-> <<>>]

Init ==
    /\ stored = {}
    /\ query = NoQuery
    /\ scan = NoScan
    /\ listed = <<>>
    /\ stayed = {}
    /\ seen = {}
    /\ changes = 0

----------------------------------------------------------------------------
(* Keys, groups and queries. *)

\* a < b, byte by byte.
Less(a, b) ==
    \E n \in 1..Len(b) :
        /\ n <= Len(a) + 1
        /\ SubSeq(a, 1, n - 1) = SubSeq(b, 1, n - 1)
        /\ n <= Len(a) => a[n] < b[n]

\* The places of the delimiter in a key, after the prefix.
Cuts(k) == {n \in Len(query.prefix) + 1..Len(k) : k[n] = query.delimiter}
Grouped(k) == query.delimiter # 0 /\ Cuts(k) # {}
Group(k) == SubSeq(k, 1, Min(Cuts(k)))
Entry(k) == IF Grouped(k) THEN Group(k) ELSE k

\* The byte successor of a group: its last byte, one more.
Jump(group) == [group EXCEPT ![Len(group)] = @ + 1]

\* The keys a listing from a marker covers.
Covers(marker, k) == IsPrefix(query.prefix, k) /\ Less(marker, k)

Covered == {k \in stored : Covers(scan.marker, k)}

\* The place of a key among others, in key order.
Place(k, keys) == Cardinality({j \in keys : j = k \/ Less(j, k)})

\* The rows of a query: the first of them in key order.
Rows ==
    [n \in 1..Min({Batch, Cardinality(Covered)}) |->
        CHOOSE k \in Covered : Place(k, Covered) = n]

\* The rows before the first that is in a group.
Ungrouped(rows) ==
    LET grouped == {n \in DOMAIN rows : Grouped(rows[n])}
    IN IF grouped = {} THEN Len(rows) ELSE Min(grouped) - 1

Room == scan.maxKeys - Len(scan.entries)

\* The entries and the marker after the first n rows.
Taken(rows, n) == scan.entries \o SubSeq(rows, 1, n)
Marker(rows, n) == IF n = 0 THEN scan.marker ELSE rows[n]

----------------------------------------------------------------------------
(* One call: a query, and what the walk over its rows does. *)

\* A call begins (clampInt, parseDelimiter and listStartMarker have read it).
Start(prefix, delimiter, after, maxKeys) ==
    /\ scan.pc = "idle"
    /\ query' = [prefix |-> prefix, delimiter |-> delimiter, after |-> after]
    /\ scan' = [pc |-> "scan", marker |-> after, maxKeys |-> maxKeys, entries |-> <<>>]
    /\ stayed' = stored
    /\ seen' = stored
    /\ UNCHANGED <<stored, listed, changes>>

\* Mutant of FillPage: the client resumes after the row that did not fit.
FillPageAfterNext ==
    LET rows == Rows IN
    /\ scan.pc = "scan"
    /\ Len(rows) > Room
    /\ Ungrouped(rows) >= Room
    /\ scan' = [scan EXCEPT !.pc = "page", !.entries = Taken(rows, Room),
                            !.marker = rows[Room + 1]]
    /\ UNCHANGED <<stored, client, stayed, seen, changes>>

\* A row is found when the page is full: the listing is truncated, and resumes
\* after the last entry.
FillPage ==
    LET rows == Rows IN
    /\ scan.pc = "scan"
    /\ Len(rows) > Room
    /\ Ungrouped(rows) >= Room
    /\ scan' = [scan EXCEPT !.pc = "page", !.entries = Taken(rows, Room),
                            !.marker = Marker(rows, Room)]
    /\ UNCHANGED <<stored, client, stayed, seen, changes>>

\* Mutant of SkipGroup: the next query is from the row, and not past its group.
SkipGroupFromRow ==
    LET rows == Rows
        n == Ungrouped(rows)
    IN /\ scan.pc = "scan"
       /\ n < Len(rows) /\ n < Room
       /\ scan' = [scan EXCEPT !.entries = Append(Taken(rows, n), Group(rows[n + 1])),
                               !.marker = rows[n + 1]]
       /\ UNCHANGED <<stored, client, stayed, seen, changes>>

\* A row is in a group: the group is an entry, and the next query is from
\* past every key in it.
SkipGroup ==
    LET rows == Rows
        n == Ungrouped(rows)
    IN /\ scan.pc = "scan"
       /\ n < Len(rows) /\ n < Room
       /\ scan' = [scan EXCEPT !.entries = Append(Taken(rows, n), Group(rows[n + 1])),
                               !.marker = Jump(Group(rows[n + 1]))]
       /\ UNCHANGED <<stored, client, stayed, seen, changes>>

\* All rows fit: the listing ends, unless the batch was full.
TakeRows ==
    LET rows == Rows IN
    /\ scan.pc = "scan"
    /\ Ungrouped(rows) = Len(rows) /\ Len(rows) <= Room
    /\ scan' = [scan EXCEPT !.pc = IF Len(rows) < Batch THEN "last" ELSE "scan",
                            !.entries = Taken(rows, Len(rows)),
                            !.marker = Marker(rows, Len(rows))]
    /\ UNCHANGED <<stored, client, stayed, seen, changes>>

----------------------------------------------------------------------------
(* The client, and the others. *)

\* The client takes the page and asks for the next one, from the marker or
\* token it was given.
NextPage(maxKeys) ==
    /\ scan.pc = "page"
    /\ listed' = listed \o scan.entries
    /\ scan' = [scan EXCEPT !.pc = "scan", !.entries = <<>>, !.maxKeys = maxKeys]
    /\ UNCHANGED <<stored, query, stayed, seen, changes>>

LastPage ==
    /\ scan.pc = "last"
    /\ listed' = listed \o scan.entries
    /\ scan' = [scan EXCEPT !.pc = "done", !.entries = <<>>]
    /\ UNCHANGED <<stored, query, stayed, seen, changes>>

\* (As many changes as one likes before the client begins.)
Change ==
    /\ scan.pc \in {"idle", "scan", "page"}
    /\ scan.pc # "idle" => changes < Changes
    /\ changes' = IF scan.pc = "idle" THEN 0 ELSE changes + 1

Put(k) ==
    /\ Change
    /\ stored' = stored \cup {k}
    /\ seen' = IF scan.pc = "idle" THEN {} ELSE seen \cup {k}
    /\ UNCHANGED <<client, scan, stayed>>

Delete(k) ==
    /\ Change
    /\ stored' = stored \ {k}
    /\ stayed' = stayed \ {k}
    /\ UNCHANGED <<client, scan, seen>>

\* The client has the whole listing, and will begin another.
Finish ==
    /\ scan.pc = "done"
    /\ query' = NoQuery
    /\ scan' = NoScan
    /\ listed' = <<>>
    /\ stayed' = {}
    /\ seen' = {}
    /\ changes' = 0
    /\ UNCHANGED stored

Next ==
    \/ \E p \in Prefix, d \in Delimiter, a \in After, m \in MaxKeys : Start(p, d, a, m)
    \/ FillPage
    \/ SkipGroup
    \/ TakeRows
    \/ \E m \in MaxKeys : NextPage(m)
    \/ LastPage
    \/ \E k \in Key \ stored : Put(k)
    \/ \E k \in stored : Delete(k)
    \/ Finish

Spec == Init /\ [][Next]_vars

----------------------------------------------------------------------------
(* Properties. *)

Found == listed \o scan.entries

\* Types; every entry is in its place, so that none is listed twice; and it is
\* a key, or the group of a key, that was stored while the client listed.
TypeOK ==
    /\ stored \subseteq Key /\ stayed \subseteq seen /\ seen \subseteq Key
    /\ query \in [prefix : Prefix \cup {<<>>}, delimiter : Delimiter \cup {0}, after : After \cup {<<>>}]
    /\ scan.pc \in {"idle", "scan", "page", "last", "done"}
    /\ Len(scan.entries) <= scan.maxKeys
    /\ changes \in 0..Changes
    /\ \A n \in 2..Len(Found) : Less(Found[n - 1], Found[n])
    /\ \A n \in 1..Len(Found) : \E k \in seen : Covers(query.after, k) /\ Found[n] = Entry(k)

\* A key that stays stored while the client lists is in the listing, itself or
\* in its group, unless it is the very key the scan resumes after when it has
\* skipped a group.
ListsWhatStays ==
    scan.pc = "done" =>
        \A k \in stayed :
            Covers(query.after, k) =>
                \/ Entry(k) \in Range(listed)
                \/ \E n \in DOMAIN listed : Grouped(listed[n]) /\ k = Jump(listed[n])

\* ListObjects's comment: the successor of a group "is exactly the next key
\* outside the group", so the scan misses no key by going there.
ListsEveryKey ==
    scan.pc = "done" =>
        \A k \in stayed : Covers(query.after, k) => Entry(k) \in Range(listed)

----------------------------------------------------------------------------
(* What the proofs rest on (ListingProofs). *)

\* Bytes are numbers, keys are made of them, and a query returns some rows.
ListingAssumption ==
    /\ Key \cup Prefix \cup After \subseteq Seq(Nat)
    /\ Delimiter \cup MaxKeys \subseteq Nat
    /\ Batch \in Nat \ {0}
    /\ Changes \in Nat

Scanning == scan.pc \in {"scan", "page"}

ListingTyped ==
    /\ IsFiniteSet(stored)
    /\ scan \in [pc : {"idle", "scan", "page", "last", "done"}, marker : Seq(Nat),
                 maxKeys : Nat, entries : Seq(Seq(Nat))]
    /\ listed \in Seq(Seq(Nat))
    /\ scan.pc = "idle" => seen = {} /\ Found = <<>>
    /\ scan.pc = "done" => scan.entries = <<>>

\* What is stored was seen, and what stayed is stored.
StoredIsSeen ==
    /\ stayed \subseteq stored
    /\ scan.pc # "idle" => stored \subseteq seen

\* The scan goes on after the last entry it found: after the key, or past the
\* group.
ResumesAfterLast ==
    Scanning =>
        /\ scan.marker =
            IF Found = <<>> THEN query.after
            ELSE IF Grouped(Last(Found)) THEN Jump(Last(Found)) ELSE Last(Found)
        /\ scan.marker = query.after \/ Less(query.after, scan.marker)

\* A key that stayed is found, or skipped over, or still ahead.
NothingMissed ==
    \A k \in stayed :
        Covers(query.after, k) =>
            \/ Entry(k) \in Range(Found)
            \/ \E n \in DOMAIN Found : Grouped(Found[n]) /\ k = Jump(Found[n])
            \/ Scanning /\ Less(scan.marker, k)

IInv == TypeOK /\ ListingTyped /\ StoredIsSeen /\ ResumesAfterLast /\ NothingMissed
=============================================================================
