---------------------------- MODULE ListingProofs ----------------------------
(***************************************************************************)
(* Proofs of Listing, for any keys, prefixes, delimiters, page sizes and   *)
(* batches, and any number of changes: what stays stored while a client    *)
(* lists is listed, unless it is the key a scan resumes after, and nothing *)
(* is listed twice.                                                        *)
(*                                                                         *)
(* First the order of keys, and what the successor of a group is in it;    *)
(* then the rows of a query; then the walk over them.                      *)
(***************************************************************************)
EXTENDS Listing, FiniteSetTheorems, SequenceTheorems, TLAPS

----------------------------------------------------------------------------
(* The order of keys. *)

Word == Seq(Nat)

\* The letters of a word.
LEMMA LettersAre ==
    ASSUME NEW w \in Word, NEW i \in 1..Len(w)
    PROVE w[i] \in Nat
  BY DEF Word

\* Lists of words, one after another.
LEMMA ThreeLists ==
    ASSUME NEW a \in Seq(Word), NEW b \in Seq(Word), NEW c \in Seq(Word)
    PROVE (a \o b) \o c = a \o (b \o c)
  BY ConcatAssociative, SMTT(30)

\* The least of the numbers there are.
LEMMA LeastNumber ==
    ASSUME NEW S, S \subseteq Nat, S # {}
    PROVE \E n \in S : \A m \in S : n <= m
  <1> DEFINE R == OpToRel(<, Nat)
  <1>1. IsWellFoundedOn(R, Nat)
    BY NatLessThanWellFounded, Zenon
  <1>2. \A m, n \in Nat : m < n => <<m, n>> \in R
    BY DEF OpToRel
  <1> HIDE DEF R
  <1>3. PICK n \in S : \A m \in S : <<m, n>> \notin R
    BY <1>1, WFMin, Zenon
  <1>4. ASSUME NEW m \in S PROVE n <= m
    <2>1. m \in Nat /\ n \in Nat
      OBVIOUS
    <2>2. ~(m < n)
      BY <1>2, <1>3, <2>1
    <2> QED
      BY <2>1, <2>2
  <1> QED
    BY <1>4

LEMMA LeastOf ==
    ASSUME NEW S, S \subseteq Nat, S # {}
    PROVE Min(S) \in S /\ \A m \in S : Min(S) <= m
  BY LeastNumber DEF Min

\* Words agree before the place n, and differ there, a being less.
Before(a, b, n) ==
    /\ n \in 1..Len(b)
    /\ n <= Len(a) + 1
    /\ \A i \in 1..(n - 1) : a[i] = b[i]
    /\ n <= Len(a) => a[n] < b[n]

LEMMA LessIsBefore ==
    ASSUME NEW a \in Word, NEW b \in Word
    PROVE Less(a, b) <=> \E n \in Nat : Before(a, b, n)
  <1>1. ASSUME NEW n \in 1..Len(b), n <= Len(a) + 1
        PROVE SubSeq(a, 1, n - 1) = SubSeq(b, 1, n - 1) <=> \A i \in 1..(n - 1) : a[i] = b[i]
    <2>1. n - 1 \in Nat /\ n - 1 <= Len(a) /\ n - 1 <= Len(b)
      BY <1>1 DEF Word
    <2>2. /\ DOMAIN SubSeq(a, 1, n - 1) = 1..(n - 1)
          /\ \A i \in 1..(n - 1) : SubSeq(a, 1, n - 1)[i] = a[i]
      BY <2>1 DEF Word
    <2>3. /\ DOMAIN SubSeq(b, 1, n - 1) = 1..(n - 1)
          /\ \A i \in 1..(n - 1) : SubSeq(b, 1, n - 1)[i] = b[i]
      BY <2>1 DEF Word
    <2>4. SubSeq(a, 1, n - 1) \in Word /\ SubSeq(b, 1, n - 1) \in Word
      BY <2>1 DEF Word
    <2> QED
      BY <2>1, <2>2, <2>3, <2>4 DEF Word
  <1>2. Len(a) \in Nat /\ Len(b) \in Nat
    BY DEF Word
  <1> QED
    BY <1>1, <1>2 DEF Less, Before

LEMMA LessNever ==
    ASSUME NEW a \in Word
    PROVE ~Less(a, a)
  <1>1. ASSUME NEW n \in Nat, Before(a, a, n) PROVE FALSE
    BY <1>1 DEF Before, Word
  <1> QED
    BY <1>1, LessIsBefore

LEMMA LessThrough ==
    ASSUME NEW a \in Word, NEW b \in Word, NEW c \in Word, Less(a, b), Less(b, c)
    PROVE Less(a, c)
  <1>1. PICK n \in Nat : Before(a, b, n)
    BY LessIsBefore
  <1>2. PICK m \in Nat : Before(b, c, m)
    BY LessIsBefore
  <1>3. CASE n < m
    <2>1. Before(a, c, n)
      BY <1>1, <1>2, <1>3 DEF Before, Word
    <2> QED
      BY <2>1, LessIsBefore
  <1>4. CASE m <= n
    <2>1. /\ m \in 1..Len(c) /\ m \in 1..Len(b) /\ n \in 1..Len(b) /\ n <= Len(a) + 1
          /\ m <= Len(a) + 1 /\ Len(a) \in Nat /\ Len(b) \in Nat
      BY <1>1, <1>2, <1>4 DEF Before, Word
    <2>2. \A i \in 1..(m - 1) : a[i] = c[i]
      <3>1. ASSUME NEW i \in 1..(m - 1) PROVE a[i] = c[i]
        <4>1. i \in 1..(n - 1)
          BY <1>4, <2>1
        <4> QED
          BY <1>1, <1>2, <4>1 DEF Before
      <3> QED
        BY <3>1
    <2>3. ASSUME m <= Len(a) PROVE a[m] < c[m]
      <3>1. a[m] \in Nat /\ b[m] \in Nat /\ c[m] \in Nat
        <4>1. m \in 1..Len(a)
          BY <2>1, <2>3
        <4> QED
          BY <2>1, <4>1, LettersAre
      <3>2. b[m] < c[m]
        BY <1>2, <2>1 DEF Before
      <3>3. a[m] = b[m] \/ a[m] < b[m]
        BY <1>1, <1>4, <2>1, <2>3 DEF Before
      <3> QED
        BY <3>1, <3>2, <3>3
    <2>4. Before(a, c, m)
      BY <2>1, <2>2, <2>3 DEF Before
    <2> QED
      BY <2>4, LessIsBefore
  <1> QED
    BY <1>3, <1>4

LEMMA LessOrMore ==
    ASSUME NEW a \in Word, NEW b \in Word, a # b
    PROVE Less(a, b) \/ Less(b, a)
  <1> DEFINE D == {n \in Nat \ {0} : n > Len(a) \/ n > Len(b) \/ a[n] # b[n]}
  <1>1. Len(a) \in Nat /\ Len(b) \in Nat
    BY DEF Word
  <1>2. Len(a) + 1 \in D
    BY <1>1
  <1>3. PICK n \in D : \A m \in D : n <= m
    <2> HIDE DEF D
    <2>1. D \subseteq Nat
      BY DEF D
    <2> QED
      BY <1>2, <2>1, LeastNumber
  <1>4. \A i \in 1..(n - 1) : i <= Len(a) /\ i <= Len(b) /\ a[i] = b[i]
    BY <1>1, <1>3
  <1>5. n <= Len(a) + 1 /\ n <= Len(b) + 1
    <2>1. Len(b) + 1 \in D
      BY <1>1
    <2> QED
      BY <1>2, <1>3, <2>1
  <1>6. CASE n > Len(a) /\ n > Len(b)
    <2>1. Len(a) = n - 1 /\ Len(b) = n - 1
      BY <1>1, <1>5, <1>6
    <2>2. a = b
      BY <1>4, <2>1, SeqEqual DEF Word
    <2> QED
      BY <2>2
  <1>7. CASE n > Len(a) /\ n <= Len(b)
    <2>1. Before(a, b, n)
      BY <1>1, <1>4, <1>5, <1>7 DEF Before
    <2> QED
      BY <2>1, LessIsBefore
  <1>8. CASE n <= Len(a) /\ n > Len(b)
    <2>1. Before(b, a, n)
      BY <1>1, <1>4, <1>5, <1>8 DEF Before
    <2> QED
      BY <2>1, LessIsBefore
  <1>9. CASE n <= Len(a) /\ n <= Len(b)
    <2>1. a[n] \in Nat /\ b[n] \in Nat /\ a[n] # b[n]
      BY <1>1, <1>9 DEF Word
    <2>2. Before(a, b, n) \/ Before(b, a, n)
      BY <1>1, <1>4, <1>5, <1>9, <2>1 DEF Before
    <2> QED
      BY <2>2, LessIsBefore
  <1> QED
    BY <1>1, <1>6, <1>7, <1>8, <1>9

----------------------------------------------------------------------------
(* Groups. *)

\* g is what a key k is listed as: its bytes to the first delimiter after the
\* prefix.
Groups(g, k) ==
    /\ g \in Word
    /\ Len(query.prefix) < Len(g) /\ Len(g) <= Len(k)
    /\ \A i \in 1..Len(g) : g[i] = k[i]
    /\ g[Len(g)] = query.delimiter
    /\ \A i \in Len(query.prefix) + 1..Len(g) - 1 : g[i] # query.delimiter

LEMMA GroupGroups ==
    ASSUME NEW k \in Word, query.prefix \in Word, Grouped(k)
    PROVE Groups(Group(k), k)
  <1> DEFINE c == Min(Cuts(k))
  <1>1. Len(k) \in Nat /\ Len(query.prefix) \in Nat
    BY DEF Word
  <1>2. c \in Cuts(k) /\ \A m \in Cuts(k) : c <= m
    <2>1. Cuts(k) \subseteq Nat /\ Cuts(k) # {}
      BY <1>1 DEF Cuts, Grouped
    <2> QED
      BY <2>1, LeastOf
  <1> HIDE DEF c
  <1>3. c \in Nat /\ Len(query.prefix) < c /\ c <= Len(k) /\ k[c] = query.delimiter
    BY <1>1, <1>2 DEF Cuts
  <1>4. \A i \in Len(query.prefix) + 1..c - 1 : k[i] # query.delimiter
    BY <1>1, <1>2, <1>3 DEF Cuts
  <1>5. Group(k) = SubSeq(k, 1, c)
    BY DEF Group, c
  <1>6. Group(k) \in Word /\ Len(Group(k)) = c /\ \A i \in 1..c : Group(k)[i] = k[i]
    BY <1>1, <1>3, <1>5 DEF Word
  <1> QED
    BY <1>1, <1>3, <1>4, <1>6 DEF Groups

\* A key is in one group.
LEMMA GroupedOnce ==
    ASSUME NEW k \in Word, query.prefix \in Word, query.delimiter # 0, NEW g, Groups(g, k)
    PROVE Grouped(k) /\ Group(k) = g
  <1>1. Len(k) \in Nat /\ Len(query.prefix) \in Nat /\ Len(g) \in Nat
    BY DEF Word, Groups
  <1>2. Len(g) \in Cuts(k)
    BY <1>1 DEF Groups, Cuts
  <1>3. Grouped(k)
    BY <1>2 DEF Grouped
  <1> DEFINE h == Group(k)
  <1>4. Groups(h, k)
    BY <1>3, GroupGroups
  <1> HIDE DEF h
  <1>5. Len(h) = Len(g)
    <2>1. Len(h) \in Nat /\ h[Len(h)] = k[Len(h)] /\ g[Len(g)] = k[Len(g)]
      <3>1. g \in Word /\ h \in Word /\ Len(query.prefix) < Len(h) /\ Len(query.prefix) < Len(g)
        BY <1>4 DEF Groups
      <3>2. Len(h) \in Nat
        BY <3>1 DEF Word
      <3>3. Len(h) \in 1..Len(h) /\ Len(g) \in 1..Len(g)
        BY <1>1, <3>1, <3>2
      <3> QED
        BY <1>4, <3>2, <3>3 DEF Groups
    <2>2. ASSUME Len(h) < Len(g) PROVE FALSE
      <3>1. Len(h) \in Len(query.prefix) + 1..Len(g) - 1 /\ g[Len(h)] = query.delimiter
        BY <1>1, <1>4, <2>1, <2>2 DEF Groups
      <3> QED
        BY <3>1 DEF Groups
    <2>3. ASSUME Len(g) < Len(h) PROVE FALSE
      <3>1. Len(g) \in Len(query.prefix) + 1..Len(h) - 1 /\ h[Len(g)] = query.delimiter
        BY <1>1, <1>4, <2>1, <2>3 DEF Groups
      <3> QED
        BY <1>4, <3>1 DEF Groups
    <2> QED
      BY <1>1, <2>1, <2>2, <2>3
  <1>6. h = g
    BY <1>1, <1>4, <1>5, SeqEqual DEF Groups, Word
  <1> QED
    BY <1>3, <1>6 DEF h

LEMMA GroupsItself ==
    ASSUME NEW k, NEW g, Groups(g, k)
    PROVE Groups(g, g)
  BY DEF Groups, Word

LEMMA JumpIs ==
    ASSUME NEW g \in Word, Len(g) > 0
    PROVE /\ Jump(g) \in Word
          /\ Len(Jump(g)) = Len(g)
          /\ \A i \in 1..Len(g) - 1 : Jump(g)[i] = g[i]
          /\ Jump(g)[Len(g)] = g[Len(g)] + 1
  <1>1. Len(g) \in 1..Len(g) /\ g[Len(g)] \in Nat
    BY DEF Word
  <1>2. g[Len(g)] + 1 \in Nat
    BY <1>1
  <1> QED
    BY <1>1, <1>2, ExceptSeq DEF Jump, Word

\* The successor of a group is past every key in it.
LEMMA JumpIsPast ==
    ASSUME NEW k \in Word, query.prefix \in Word, NEW g, Groups(g, k)
    PROVE Jump(g) \in Word /\ Less(k, Jump(g))
  <1>1. g \in Word /\ Len(g) \in Nat /\ Len(g) > 0 /\ Len(k) \in Nat
    BY DEF Groups, Word
  <1>2. Jump(g) \in Word /\ Len(Jump(g)) = Len(g) /\ Jump(g)[Len(g)] = g[Len(g)] + 1
    BY <1>1, JumpIs
  <1>3. \A i \in 1..Len(g) - 1 : Jump(g)[i] = g[i]
    BY <1>1, JumpIs
  <1>4. g[Len(g)] \in Nat
    BY <1>1 DEF Word
  <1>5. Before(k, Jump(g), Len(g))
    BY <1>1, <1>2, <1>3, <1>4 DEF Before, Groups
  <1> QED
    BY <1>1, <1>2, <1>5, LessIsBefore

\* ListObjects's comment, as far as it is so: a key past one of a group is in
\* the group, or its successor, or past that.
LEMMA JumpIsNext ==
    ASSUME NEW r \in Word, NEW k \in Word, query.prefix \in Word, NEW g, Groups(g, r),
           Less(r, k)
    PROVE Groups(g, k) \/ k = Jump(g) \/ Less(Jump(g), k)
  <1>1. g \in Word /\ Len(g) \in Nat /\ Len(g) > 0 /\ Len(r) \in Nat /\ Len(k) \in Nat
    BY DEF Groups, Word
  <1> DEFINE j == Jump(g)
  <1>2. j \in Word /\ Len(j) = Len(g) /\ j[Len(g)] = g[Len(g)] + 1
    BY <1>1, JumpIs
  <1>3. \A i \in 1..Len(g) - 1 : j[i] = g[i]
    BY <1>1, JumpIs
  <1> HIDE DEF j
  <1>4. PICK n \in Nat : Before(r, k, n)
    BY LessIsBefore
  <1>5. CASE n > Len(g)
    <2>1. Groups(g, k)
      BY <1>1, <1>4, <1>5 DEF Groups, Before
    <2> QED
      BY <2>1
  <1>6. CASE n < Len(g)
    <2>1. n \in 1..Len(k) /\ n <= Len(j) + 1 /\ n <= Len(j) /\ n <= Len(r)
          /\ n \in 1..Len(g) - 1 /\ n \in 1..Len(g)
      BY <1>1, <1>2, <1>4, <1>6 DEF Groups, Before
    <2>2. r[n] < k[n] /\ j[n] = g[n] /\ g[n] = r[n]
      BY <1>3, <1>4, <2>1 DEF Groups, Before
    <2>3. \A i \in 1..(n - 1) : j[i] = k[i]
      <3>1. ASSUME NEW i \in 1..(n - 1) PROVE j[i] = k[i]
        <4>1. i \in 1..Len(g) - 1 /\ i \in 1..Len(g)
          BY <1>1, <2>1
        <4>2. j[i] = g[i] /\ g[i] = r[i] /\ r[i] = k[i]
          BY <1>3, <1>4, <4>1 DEF Groups, Before
        <4> QED
          BY <4>2
      <3> QED
        BY <3>1
    <2>4. Before(j, k, n)
      BY <2>1, <2>2, <2>3 DEF Before
    <2> QED
      BY <1>2, <2>4, LessIsBefore DEF j
  <1>7. CASE n = Len(g)
    <2>1. n <= Len(k) /\ \A i \in 1..n - 1 : j[i] = k[i]
      BY <1>1, <1>3, <1>4, <1>7 DEF Groups, Before
    <2>2. g[n] \in Nat /\ k[n] \in Nat /\ g[n] < k[n] /\ j[n] = g[n] + 1
      <3>1. n \in 1..Len(g) /\ n \in 1..Len(k) /\ n <= Len(r)
        <4>1. Len(g) <= Len(r) /\ n \in 1..Len(k)
          BY <1>4 DEF Groups, Before
        <4> QED
          BY <1>1, <1>7, <4>1
      <3>2. g[n] \in Nat /\ k[n] \in Nat
        BY <1>1, <3>1, LettersAre
      <3>3. g[n] = r[n] /\ r[n] < k[n] /\ j[n] = g[n] + 1
        BY <1>2, <1>4, <1>7, <3>1 DEF Groups, Before
      <3> QED
        BY <3>2, <3>3
    <2>3. CASE k[n] > j[n]
      <3>1. Before(j, k, n)
        BY <1>1, <1>2, <1>7, <2>1, <2>2, <2>3 DEF Before
      <3> QED
        BY <1>2, <3>1, LessIsBefore DEF j
    <2>4. CASE k[n] = j[n] /\ Len(k) > n
      <3>1. Before(j, k, n + 1)
        BY <1>1, <1>2, <1>7, <2>1, <2>2, <2>4 DEF Before
      <3> QED
        BY <1>1, <1>2, <1>7, <3>1, LessIsBefore DEF j
    <2>5. CASE k[n] = j[n] /\ Len(k) = n
      <3>1. k = j
        BY <1>1, <1>2, <1>7, <2>1, <2>5, SeqEqual DEF Word
      <3> QED
        BY <3>1 DEF j
    <2> QED
      BY <1>1, <2>1, <2>2, <2>3, <2>4, <2>5
  <1> QED
    BY <1>1, <1>5, <1>6, <1>7

\* The group of a key past a key that is in none is past it too.
LEMMA GroupAfterKey ==
    ASSUME NEW e \in Word, NEW r \in Word, query.prefix \in Word, query.delimiter # 0,
           IsPrefix(query.prefix, e), ~Grouped(e), Less(e, r), NEW g, Groups(g, r)
    PROVE Less(e, g)
  <1>1. g \in Word /\ Len(g) \in Nat /\ Len(e) \in Nat /\ Len(r) \in Nat /\ Len(query.prefix) \in Nat
    BY DEF Groups, Word
  <1>2. PICK n \in Nat : Before(e, r, n)
    BY LessIsBefore
  <1>3. n <= Len(g)
    <2>1. ASSUME Len(g) < n PROVE FALSE
      <3>1. Len(g) <= Len(e) /\ e[Len(g)] = query.delimiter
        BY <1>1, <1>2, <2>1 DEF Before, Groups
      <3>2. Len(g) \in Cuts(e)
        BY <1>1, <3>1 DEF Cuts, Groups
      <3> QED
        BY <3>2 DEF Grouped
    <2> QED
      BY <1>1, <2>1
  <1>4. Before(e, g, n)
    BY <1>1, <1>2, <1>3 DEF Before, Groups
  <1> QED
    BY <1>1, <1>4, LessIsBefore

\* And so is that of a key past the successor of a group.
LEMMA GroupAfterGroup ==
    ASSUME NEW r \in Word, query.prefix \in Word, NEW h, Groups(h, h), Less(Jump(h), r),
           NEW g, Groups(g, r)
    PROVE Less(h, g)
  <1>1. g \in Word /\ h \in Word /\ Len(g) \in Nat /\ Len(h) \in Nat /\ Len(h) > 0
        /\ Len(r) \in Nat /\ Len(query.prefix) \in Nat
    <2>1. g \in Word /\ h \in Word /\ Len(query.prefix) < Len(h)
      BY DEF Groups
    <2>2. Len(g) \in Nat /\ Len(h) \in Nat /\ Len(r) \in Nat /\ Len(query.prefix) \in Nat
      BY <2>1 DEF Word
    <2> QED
      BY <2>1, <2>2
  <1> DEFINE j == Jump(h)
  <1>2. j \in Word /\ Len(j) = Len(h) /\ j[Len(h)] = h[Len(h)] + 1
    BY <1>1, JumpIs
  <1>3. \A i \in 1..Len(h) - 1 : j[i] = h[i]
    BY <1>1, JumpIs
  <1>4. PICK n \in Nat : Before(j, r, n)
    BY <1>2, LessIsBefore
  <1> HIDE DEF j
  <1> DEFINE m == IF n > Len(h) THEN Len(h) ELSE n
  <1>5. m \in 1..Len(h) /\ m <= Len(r) /\ \A i \in 1..m - 1 : h[i] = r[i]
    BY <1>1, <1>2, <1>3, <1>4 DEF Before
  <1>6. h[m] < r[m]
    <2>1. h[Len(h)] \in Nat /\ \A i \in 1..Len(r) : r[i] \in Nat
      BY <1>1 DEF Word
    <2>2. CASE n < Len(h)
      BY <1>1, <1>2, <1>3, <1>4, <2>2 DEF Before
    <2>3. CASE n = Len(h)
      BY <1>1, <1>2, <1>4, <1>5, <2>1, <2>3 DEF Before
    <2>4. CASE n > Len(h)
      BY <1>1, <1>2, <1>4, <1>5, <2>1, <2>4 DEF Before
    <2> QED
      BY <1>1, <2>2, <2>3, <2>4
  <1> HIDE DEF m
  <1>7. m <= Len(g)
    <2>1. ASSUME Len(g) < m PROVE FALSE
      <3>1. h[Len(g)] = query.delimiter /\ Len(g) \in Len(query.prefix) + 1..Len(h) - 1
        BY <1>1, <1>5, <2>1 DEF Groups
      <3> QED
        BY <3>1 DEF Groups
    <2> QED
      BY <1>1, <1>5, <2>1
  <1>8. Before(h, g, m)
    BY <1>1, <1>5, <1>6, <1>7 DEF Before, Groups
  <1> QED
    BY <1>1, <1>5, <1>8, LessIsBefore

----------------------------------------------------------------------------
(* The rows of a query. *)

\* Of the keys of S, those up to k.
UpTo(k, S) == {j \in S : j = k \/ Less(j, k)}

LEMMA PlaceIsThere ==
    ASSUME NEW S, IsFiniteSet(S), NEW k \in S
    PROVE Place(k, S) \in 1..Cardinality(S)
  <1>1. UpTo(k, S) \in SUBSET S /\ k \in UpTo(k, S)
    BY DEF UpTo
  <1>2. IsFiniteSet(UpTo(k, S)) /\ Cardinality(UpTo(k, S)) <= Cardinality(S)
    BY <1>1, FS_Subset
  <1>3. Cardinality(UpTo(k, S)) \in Nat /\ Cardinality(S) \in Nat
    BY <1>2, FS_CardinalityType
  <1>4. Cardinality(UpTo(k, S)) # 0
    BY <1>1, <1>2, FS_EmptySet
  <1>5. Place(k, S) = Cardinality(UpTo(k, S))
    BY DEF Place, UpTo
  <1> QED
    BY <1>2, <1>3, <1>4, <1>5

LEMMA PlacesInOrder ==
    ASSUME NEW S, IsFiniteSet(S), S \subseteq Word, NEW k \in S, NEW l \in S, Less(k, l)
    PROVE Place(k, S) < Place(l, S)
  <1>1. UpTo(k, S) \subseteq UpTo(l, S)
    <2>1. ASSUME NEW j \in S, Less(j, k) PROVE Less(j, l)
      <3>1. j \in Word /\ k \in Word /\ l \in Word
        OBVIOUS
      <3> QED
        BY <2>1, <3>1, LessThrough
    <2> QED
      BY <2>1 DEF UpTo
  <1>2. l \in UpTo(l, S) /\ l \notin UpTo(k, S)
    <2>1. ASSUME l = k \/ Less(l, k) PROVE FALSE
      <3>1. k \in Word /\ l \in Word
        OBVIOUS
      <3>2. Less(k, k)
        BY <2>1, <3>1, LessThrough
      <3> QED
        BY <3>1, <3>2, LessNever
    <2> QED
      BY <2>1 DEF UpTo
  <1>3. IsFiniteSet(UpTo(k, S)) /\ IsFiniteSet(UpTo(l, S))
    BY FS_Subset DEF UpTo
  <1>4. /\ Cardinality(UpTo(k, S)) <= Cardinality(UpTo(l, S))
        /\ Cardinality(UpTo(k, S)) # Cardinality(UpTo(l, S))
    BY <1>1, <1>2, <1>3, FS_Subset
  <1>5. Cardinality(UpTo(k, S)) \in Nat /\ Cardinality(UpTo(l, S)) \in Nat
    BY <1>3, FS_CardinalityType
  <1>6. Place(k, S) = Cardinality(UpTo(k, S)) /\ Place(l, S) = Cardinality(UpTo(l, S))
    BY DEF Place, UpTo
  <1> QED
    BY <1>4, <1>5, <1>6

\* Every place is some key's: as many places as keys, and no two keys in one.
LEMMA PlacesAreTaken ==
    ASSUME NEW S, IsFiniteSet(S), S \subseteq Word, NEW n \in 1..Cardinality(S)
    PROVE \E k \in S : Place(k, S) = n
  <1> DEFINE T == 1..Cardinality(S)
             f == [k \in S |-> Place(k, S)]
  <1>1. Cardinality(S) \in Nat
    BY FS_CardinalityType
  <1>2. IsFiniteSet(T) /\ Cardinality(T) = Cardinality(S)
    BY <1>1, FS_Interval
  <1>3. f \in [S -> T]
    BY PlaceIsThere
  <1>4. ASSUME NEW k \in S, NEW l \in S, f[k] = f[l] PROVE k = l
    <2>1. k \in Word /\ l \in Word /\ Place(k, S) = Place(l, S)
      BY <1>4
    <2>2. Place(k, S) \in Nat
      BY PlaceIsThere, <1>1
    <2>3. ~Less(k, l) /\ ~Less(l, k)
      BY <2>1, <2>2, PlacesInOrder
    <2> QED
      BY <2>1, <2>3, LessOrMore
  <1> HIDE DEF f, T
  <1>5. f \in Injection(S, T)
    BY <1>3, <1>4 DEF Injection, IsInjective
  <1>6. f \in Surjection(S, T)
    BY <1>2, <1>5, FS_Injection
  <1>7. PICK k \in S : f[k] = n
    BY <1>6 DEF Surjection, T
  <1> QED
    BY <1>7 DEF f

\* The rows are the first of what the query covers, in order; and all of it,
\* unless they fill the batch.
LEMMA RowsAre ==
    ASSUME IsFiniteSet(stored), stored \subseteq Word, Batch \in Nat
    PROVE /\ Rows \in Seq(Word) /\ Len(Rows) <= Batch
          /\ \A n \in 1..Len(Rows) : Rows[n] \in Covered
          /\ \A m, n \in 1..Len(Rows) : m < n => Less(Rows[m], Rows[n])
          /\ \A k \in Covered :
                \/ \E n \in 1..Len(Rows) : k = Rows[n]
                \/ Len(Rows) = Batch /\ \A n \in 1..Len(Rows) : Less(Rows[n], k)
  <1> DEFINE S == Covered
             N == Cardinality(S)
             L == Min({Batch, N})
  <1>1. IsFiniteSet(S) /\ S \subseteq Word
    BY FS_Subset DEF Covered
  <1> HIDE DEF S
  <1>2. N \in Nat
    BY <1>1, FS_CardinalityType
  <1>3. L \in Nat /\ L <= Batch /\ L <= N /\ (L = Batch \/ L = N)
    <2> HIDE DEF N
    <2>1. {Batch, N} \subseteq Nat /\ {Batch, N} # {}
      BY <1>2
    <2> QED
      BY <1>2, <2>1, LeastOf
  <1>4. \A n \in 1..N : \E k \in S : Place(k, S) = n
    BY <1>1, PlacesAreTaken
  <1>5. Rows = [n \in 1..L |-> CHOOSE k \in S : Place(k, S) = n]
    BY DEF Rows, S
  <1> HIDE DEF N, L
  <1>6. \A n \in 1..L : Rows[n] \in S /\ Place(Rows[n], S) = n
    <2>1. ASSUME NEW n \in 1..L PROVE \E k \in S : Place(k, S) = n
      BY <1>2, <1>3, <1>4
    <2> QED
      BY <1>5, <2>1
  <1>7. Rows \in [1..L -> Word]
    BY <1>1, <1>5, <1>6
  <1>8. Rows \in Seq(Word) /\ Len(Rows) = L
    BY <1>3, <1>7
  <1>9. ASSUME NEW m \in 1..L, NEW n \in 1..L, m < n PROVE Less(Rows[m], Rows[n])
    <2>1. Rows[m] \in S /\ Rows[n] \in S /\ Rows[m] \in Word /\ Rows[n] \in Word
      BY <1>1, <1>6
    <2>2. Place(Rows[m], S) = m /\ Place(Rows[n], S) = n
      BY <1>6
    <2>3. ~Less(Rows[n], Rows[m]) /\ Rows[m] # Rows[n]
      <3>1. m \in Nat /\ n \in Nat
        BY <1>3
      <3> QED
        BY <1>1, <1>9, <2>1, <2>2, <3>1, PlacesInOrder
    <2> QED
      BY <2>1, <2>3, LessOrMore
  <1>10. ASSUME NEW k \in S, \A n \in 1..L : k # Rows[n]
         PROVE L = Batch /\ \A n \in 1..L : Less(Rows[n], k)
    <2> DEFINE p == Place(k, S)
    <2>1. p \in 1..N
      BY <1>1, PlaceIsThere DEF N
    <2>2. p > L
      <3>1. ASSUME p \in 1..L PROVE FALSE
        <4>1. Rows[p] \in S /\ Place(Rows[p], S) = p /\ Rows[p] # k
          BY <1>6, <1>10, <3>1
        <4>2. Less(k, Rows[p]) \/ Less(Rows[p], k)
          BY <1>1, <4>1, LessOrMore
        <4>3. p \in Nat
          BY <1>2, <2>1
        <4> HIDE DEF p
        <4>4. CASE Less(k, Rows[p])
          <5>1. Place(k, S) < Place(Rows[p], S)
            BY <1>1, <4>1, <4>4, PlacesInOrder
          <5> QED
            BY <4>1, <4>3, <5>1 DEF p
        <4>5. CASE Less(Rows[p], k)
          <5>1. Place(Rows[p], S) < Place(k, S)
            BY <1>1, <4>1, <4>5, PlacesInOrder
          <5> QED
            BY <4>1, <4>3, <5>1 DEF p
        <4> QED
          BY <4>2, <4>4, <4>5
      <3> HIDE DEF p
      <3> QED
        BY <1>2, <1>3, <2>1, <3>1
    <2>3. L = Batch
      <3> HIDE DEF p
      <3> QED BY <1>2, <1>3, <2>1, <2>2
    <2>4. ASSUME NEW n \in 1..L PROVE Less(Rows[n], k)
      <3>1. Rows[n] \in S /\ Place(Rows[n], S) = n /\ Rows[n] \in Word /\ k \in Word
        BY <1>1, <1>6
      <3>2. ~Less(k, Rows[n])
        <4>1. n \in Nat /\ p \in Nat /\ n < p
          <5> HIDE DEF p
          <5> QED BY <1>2, <1>3, <2>1, <2>2
        <4>2. Less(k, Rows[n]) => p < n
          BY <1>1, <3>1, PlacesInOrder
        <4> HIDE DEF p
        <4> QED
          BY <4>1, <4>2
      <3> QED
        BY <1>10, <3>1, <3>2, LessOrMore
    <2> QED
      BY <2>3, <2>4
  <1> QED
    BY <1>3, <1>6, <1>8, <1>9, <1>10 DEF S

----------------------------------------------------------------------------
(* The walk over the rows. *)

\* What is found so far, and the marker from which the scan is to go on: the
\* invariant while the client lists, of any list and marker.
Walk(found, marker) ==
    /\ found \in Seq(Word) /\ marker \in Word
    /\ \A n \in 2..Len(found) : Less(found[n - 1], found[n])
    /\ \A n \in 1..Len(found) : \E k \in seen : Covers(query.after, k) /\ found[n] = Entry(k)
    /\ marker = IF found = <<>> THEN query.after
                ELSE IF Grouped(Last(found)) THEN Jump(Last(found)) ELSE Last(found)
    /\ marker = query.after \/ Less(query.after, marker)
    /\ \A k \in stayed :
          Covers(query.after, k) =>
              \/ Entry(k) \in Range(found)
              \/ \E n \in DOMAIN found : Grouped(found[n]) /\ k = Jump(found[n])
              \/ Less(marker, k)

\* What the keys and the query are.
Words ==
    /\ stored \subseteq Word /\ IsFiniteSet(stored) /\ stored \subseteq seen
    /\ seen \subseteq Word /\ stayed \subseteq stored
    /\ query.prefix \in Word /\ query.after \in Word

LEMMA WordsAre ==
    ASSUME ListingAssumption, IInv, scan.pc # "idle"
    PROVE Words
  <1>1. <<>> \in Word
    BY DEF Word
  <1> QED
    BY <1>1 DEF ListingAssumption, IInv, TypeOK, ListingTyped, StoredIsSeen, Words, Word

\* The entry of a key, and the last entry with it.
LEMMA EntryIs ==
    ASSUME NEW k \in Word, query.prefix \in Word
    PROVE /\ Entry(k) \in Word
          /\ Grouped(k) => Groups(Entry(k), k) /\ Groups(Entry(k), Entry(k)) /\ Grouped(Entry(k))
          /\ ~Grouped(k) => Entry(k) = k
  <1>1. CASE Grouped(k)
    <2>1. Entry(k) = Group(k) /\ query.delimiter # 0
      BY <1>1 DEF Entry, Grouped
    <2>2. Groups(Entry(k), k)
      BY <1>1, <2>1, GroupGroups
    <2>3. Groups(Entry(k), Entry(k)) /\ Entry(k) \in Word
      BY <2>2, GroupsItself DEF Groups
    <2> QED
      BY <1>1, <2>1, <2>2, <2>3, GroupedOnce
  <1>2. CASE ~Grouped(k)
    BY <1>2 DEF Entry
  <1> QED
    BY <1>1, <1>2

LEMMA LastIs ==
    ASSUME Words, NEW found, NEW marker, Walk(found, marker), found # <<>>
    PROVE /\ Last(found) \in Word
          /\ IF Grouped(Last(found))
             THEN Groups(Last(found), Last(found)) /\ marker = Jump(Last(found))
             ELSE IsPrefix(query.prefix, Last(found)) /\ marker = Last(found)
          /\ Less(Last(found), marker) \/ Last(found) = marker
  <1> DEFINE e == Last(found)
  <1>1. Len(found) \in 1..Len(found) /\ e = found[Len(found)]
    BY DEF Walk, Last
  <1>2. PICK k \in seen : Covers(query.after, k) /\ e = Entry(k)
    BY <1>1 DEF Walk
  <1>3. k \in Word /\ query.prefix \in Word
    BY DEF Words
  <1>4. marker = IF Grouped(e) THEN Jump(e) ELSE e
    BY DEF Walk
  <1> HIDE DEF e
  <1>5. e \in Word
    BY <1>2, <1>3, EntryIs
  <1>6. CASE Grouped(k)
    <2>1. Groups(e, e) /\ Grouped(e)
      BY <1>2, <1>3, <1>6, EntryIs
    <2>2. Less(e, Jump(e))
      BY <1>3, <1>5, <2>1, JumpIsPast
    <2> QED
      BY <1>4, <1>5, <2>1, <2>2 DEF e
  <1>7. CASE ~Grouped(k)
    <2>1. e = k
      BY <1>2, <1>3, <1>7, EntryIs
    <2> QED
      BY <1>2, <1>4, <1>5, <1>7, <2>1 DEF e, Covers
  <1> QED
    BY <1>6, <1>7

\* The rows before the first in a group.
LEMMA UngroupedIs ==
    ASSUME NEW rows \in Seq(Word)
    PROVE /\ Ungrouped(rows) \in 0..Len(rows)
          /\ \A n \in 1..Ungrouped(rows) : ~Grouped(rows[n])
          /\ Ungrouped(rows) < Len(rows) => Grouped(rows[Ungrouped(rows) + 1])
  <1> DEFINE G == {n \in DOMAIN rows : Grouped(rows[n])}
  <1>1. G \subseteq 1..Len(rows) /\ Len(rows) \in Nat /\ DOMAIN rows = 1..Len(rows)
    OBVIOUS
  <1>2. CASE G = {}
    <2>1. Ungrouped(rows) = Len(rows)
      BY <1>2 DEF Ungrouped
    <2> QED
      BY <1>1, <1>2, <2>1
  <1>3. CASE G # {}
    <2>1. Ungrouped(rows) = Min(G) - 1
      BY <1>3 DEF Ungrouped
    <2>2. Min(G) \in G /\ \A n \in G : Min(G) <= n
      <3>1. G \subseteq Nat
        BY <1>1
      <3> HIDE DEF G
      <3> QED
        BY <1>3, <3>1, LeastOf
    <2> DEFINE m == Min(G)
    <2>3. m \in 1..Len(rows) /\ Grouped(rows[m]) /\ \A n \in 1..m - 1 : ~Grouped(rows[n])
      <3> HIDE DEF m
      <3>1. m \in G /\ \A n \in G : m <= n
        BY <2>2 DEF m
      <3> QED
        BY <1>1, <3>1
    <2>4. Ungrouped(rows) = m - 1
      BY <2>1
    <2> HIDE DEF m
    <2> QED
      BY <1>1, <2>3, <2>4
  <1> QED
    BY <1>2, <1>3

\* A walk goes on over rows that are in no group.
LEMMA RowsWalk ==
    ASSUME Words, Batch \in Nat \ {0}, NEW found, Walk(found, scan.marker),
           NEW n \in 0..Len(Rows), n <= Ungrouped(Rows)
    PROVE Walk(found \o SubSeq(Rows, 1, n), Marker(Rows, n))
  <1> DEFINE R == Rows
             F == found \o SubSeq(R, 1, n)
             m == Marker(R, n)
             L == Len(found)
  <1>1. /\ R \in Seq(Word) /\ \A i \in 1..Len(R) : R[i] \in Covered
        /\ \A i, j \in 1..Len(R) : i < j => Less(R[i], R[j])
    BY RowsAre DEF Words
  <1>2. \A k \in Covered :
            \/ \E i \in 1..Len(R) : k = R[i]
            \/ Len(R) = Batch /\ \A i \in 1..Len(R) : Less(R[i], k)
    BY RowsAre DEF Words
  <1>3. \A i \in 1..n : ~Grouped(R[i])
    <2>1. Ungrouped(R) \in 0..Len(R) /\ \A i \in 1..Ungrouped(R) : ~Grouped(R[i])
      BY <1>1, UngroupedIs
    <2> QED
      BY <2>1
  <1> HIDE DEF R
  <1>4. n \in Nat /\ n <= Len(R) /\ Len(R) \in Nat /\ L \in Nat /\ found \in Seq(Word)
    BY <1>1 DEF Walk, R
  <1>5. m = IF n = 0 THEN scan.marker ELSE R[n]
    BY DEF Marker
  <1>6. /\ F \in Seq(Word) /\ Len(F) = L + n
        /\ \A i \in 1..L : F[i] = found[i]
        /\ \A i \in 1..n : F[L + i] = R[i]
    BY <1>1, <1>4
  <1> HIDE DEF F, m
  <1>7. scan.marker \in Word /\ query.after \in Word /\ query.prefix \in Word
    BY DEF Walk, Words
  <1>8. \A i \in 1..Len(R) : R[i] \in Word /\ R[i] \in seen /\ Less(scan.marker, R[i])
                             /\ IsPrefix(query.prefix, R[i])
    BY <1>1 DEF Covered, Covers, Words
  <1>9. \A i \in 1..Len(R) : Less(query.after, R[i])
    BY <1>7, <1>8, LessThrough DEF Walk
  <1>10. m \in Word
    BY <1>4, <1>5, <1>7, <1>8
  <1>11. ASSUME NEW i \in 2..Len(F) PROVE Less(F[i - 1], F[i])
    <2>1. CASE i <= L
      <3>1. i \in 2..L /\ i \in 1..L /\ i - 1 \in 1..L
        BY <1>4, <2>1
      <3>2. F[i] = found[i] /\ F[i - 1] = found[i - 1]
        BY <1>6, <3>1, Zenon
      <3> QED
        BY <3>1, <3>2 DEF Walk
    <2>2. CASE i = L + 1
      <3>1. F[i - 1] = Last(found) /\ F[i] = R[1] /\ 1 \in 1..Len(R) /\ found # <<>>
        BY <1>4, <1>6, <2>2 DEF Last
      <3>2. /\ Last(found) \in Word
            /\ Less(Last(found), scan.marker) \/ Last(found) = scan.marker
        BY <3>1, LastIs
      <3>3. Less(Last(found), R[1])
        BY <1>7, <1>8, <3>1, <3>2, LessThrough
      <3> QED
        BY <3>1, <3>3
    <2>3. CASE i > L + 1
      <3> DEFINE j == i - L
      <3>1. F[L + (j - 1)] = R[j - 1] /\ F[L + j] = R[j] /\ L + (j - 1) = i - 1 /\ L + j = i
        BY <1>4, <1>6, <2>3
      <3>2. j - 1 \in 1..Len(R) /\ j \in 1..Len(R) /\ j - 1 < j
        BY <1>4, <1>6, <2>3
      <3> HIDE DEF j
      <3>3. Less(R[j - 1], R[j])
        BY <1>1, <3>2
      <3> QED
        BY <3>1, <3>3
    <2> QED
      BY <1>4, <1>6, <2>1, <2>2, <2>3
  <1>12. ASSUME NEW i \in 1..Len(F)
         PROVE \E k \in seen : Covers(query.after, k) /\ F[i] = Entry(k)
    <2>1. CASE i <= L
      BY <1>4, <1>6, <2>1 DEF Walk
    <2>2. CASE i > L
      <3> DEFINE j == i - L
      <3>1. j \in 1..n /\ j \in 1..Len(R) /\ i = L + j
        BY <1>4, <1>6, <2>2
      <3> HIDE DEF j
      <3>2. F[i] = R[j] /\ R[j] \in seen /\ Covers(query.after, R[j])
        BY <1>6, <1>8, <1>9, <3>1 DEF Covers
      <3>3. Entry(R[j]) = R[j]
        BY <1>3, <3>1 DEF Entry
      <3> QED
        BY <3>2, <3>3
    <2> QED
      BY <1>4, <1>6, <2>1, <2>2
  <1>13. /\ m = IF F = <<>> THEN query.after ELSE IF Grouped(Last(F)) THEN Jump(Last(F)) ELSE Last(F)
         /\ m = query.after \/ Less(query.after, m)
    <2>1. CASE n = 0
      <3>1. F = found
        BY <1>4, <1>6, <2>1, SeqEqual
      <3> QED
        BY <1>5, <2>1, <3>1 DEF Walk
    <2>2. CASE n > 0
      <3>1. F # <<>> /\ Last(F) = R[n] /\ m = R[n] /\ n \in 1..n /\ n \in 1..Len(R)
        BY <1>4, <1>5, <1>6, <2>2 DEF Last
      <3> QED
        BY <1>3, <1>9, <3>1
    <2> QED
      BY <1>4, <2>1, <2>2
  <1>14. ASSUME NEW k \in stayed, Covers(query.after, k)
         PROVE \/ Entry(k) \in Range(F)
               \/ \E i \in DOMAIN F : Grouped(F[i]) /\ k = Jump(F[i])
               \/ Less(m, k)
    <2>1. DOMAIN F = 1..Len(F) /\ DOMAIN found = 1..L /\ 1..L \subseteq 1..Len(F)
      BY <1>4, <1>6
    <2>2. CASE Entry(k) \in Range(found)
      <3>1. PICK i \in 1..L : Entry(k) = found[i]
        BY <2>1, <2>2 DEF Range
      <3>2. i \in DOMAIN F /\ Entry(k) = F[i]
        BY <1>6, <2>1, <3>1
      <3> QED
        BY <3>2 DEF Range
    <2>3. CASE \E i \in DOMAIN found : Grouped(found[i]) /\ k = Jump(found[i])
      BY <1>6, <2>1, <2>3
    <2>4. CASE Less(scan.marker, k) /\ n = 0
      BY <1>5, <2>4
    <2>5. CASE Less(scan.marker, k) /\ n > 0
      <3>1. k \in Covered
        BY <1>14, <2>5 DEF Covered, Covers, Words
      <3>2. n \in 1..Len(R) /\ m = R[n]
        BY <1>4, <1>5, <2>5
      <3>3. CASE \E i \in 1..Len(R) : k = R[i]
        <4>1. PICK i \in 1..Len(R) : k = R[i]
          BY <3>3
        <4>2. CASE i <= n
          <5>1. i \in 1..n /\ F[L + i] = k /\ L + i \in 1..Len(F)
            BY <1>4, <1>6, <4>1, <4>2
          <5>2. Entry(k) = k
            BY <1>3, <4>1, <5>1 DEF Entry
          <5> QED
            BY <2>1, <5>1, <5>2 DEF Range
        <4>3. CASE i > n
          BY <1>1, <3>2, <4>1, <4>3
        <4> QED
          BY <1>4, <4>2, <4>3
      <3>4. CASE \A i \in 1..Len(R) : Less(R[i], k)
        BY <3>2, <3>4
      <3> QED
        BY <1>2, <3>1, <3>3, <3>4
    <2>6. n = 0 \/ n > 0
      BY <1>4
    <2> QED
      BY <1>14, <2>2, <2>3, <2>4, <2>5, <2>6 DEF Walk
  <1>15. Walk(F, m)
    BY <1>6, <1>10, <1>11, <1>12, <1>13, <1>14 DEF Walk
  <1> QED
    BY <1>15 DEF F, m, R

\* A walk goes on past the group of the next key.
LEMMA GroupWalks ==
    ASSUME Words, NEW found, NEW marker, Walk(found, marker),
           NEW r \in stored, Covers(marker, r), Grouped(r),
           \A k \in stored : Covers(marker, k) => k = r \/ Less(r, k)
    PROVE Walk(Append(found, Group(r)), Jump(Group(r)))
  <1> DEFINE g == Group(r)
             F == Append(found, g)
             m == Jump(g)
             L == Len(found)
  <1>1. /\ r \in Word /\ marker \in Word /\ found \in Seq(Word) /\ query.prefix \in Word
        /\ query.after \in Word /\ query.delimiter # 0
    BY DEF Words, Walk, Grouped
  <1>2. Groups(g, r) /\ Groups(g, g) /\ Grouped(g) /\ g \in Word
    <2>1. Entry(r) = g
      BY DEF Entry
    <2> QED
      BY <1>1, <2>1, EntryIs
  <1>3. m \in Word /\ Less(r, m)
    BY <1>1, <1>2, JumpIsPast
  <1> HIDE DEF g, m
  <1>4. /\ F \in Seq(Word) /\ Len(F) = L + 1 /\ L \in Nat
        /\ \A i \in 1..L : F[i] = found[i]
        /\ F[L + 1] = g
    BY <1>1, <1>2
  <1> HIDE DEF F
  <1>5. Less(query.after, r)
    BY <1>1, LessThrough DEF Walk, Covers
  <1>6. found # <<>> => Less(Last(found), g)
    <2> SUFFICES ASSUME found # <<>> PROVE Less(Last(found), g)
      OBVIOUS
    <2> DEFINE e == Last(found)
    <2>1. /\ e \in Word
          /\ IF Grouped(e) THEN Groups(e, e) /\ marker = Jump(e)
             ELSE IsPrefix(query.prefix, e) /\ marker = e
      BY LastIs
    <2> HIDE DEF e
    <2>2. CASE Grouped(e)
      BY <1>1, <1>2, <2>1, <2>2, GroupAfterGroup DEF e, Covers
    <2>3. CASE ~Grouped(e)
      BY <1>1, <1>2, <2>1, <2>3, GroupAfterKey DEF e, Covers
    <2> QED
      BY <2>2, <2>3
  <1>7. ASSUME NEW i \in 2..Len(F) PROVE Less(F[i - 1], F[i])
    <2>1. CASE i <= L
      <3>1. F[i] = found[i] /\ F[i - 1] = found[i - 1] /\ i \in 2..L
        BY <1>4, <2>1
      <3> QED
        BY <3>1 DEF Walk
    <2>2. CASE i = L + 1
      <3>1. F[i - 1] = Last(found) /\ F[i] = g /\ found # <<>>
        BY <1>1, <1>4, <2>2 DEF Last
      <3> QED
        BY <1>6, <3>1
    <2> QED
      BY <1>4, <2>1, <2>2
  <1>8. ASSUME NEW i \in 1..Len(F)
        PROVE \E k \in seen : Covers(query.after, k) /\ F[i] = Entry(k)
    <2>1. CASE i <= L
      BY <1>4, <2>1 DEF Walk
    <2>2. CASE i = L + 1
      <3>1. r \in seen /\ Covers(query.after, r) /\ Entry(r) = g
        BY <1>5 DEF Words, Covers, Entry, g
      <3> QED
        BY <1>4, <2>2, <3>1
    <2> QED
      BY <1>4, <2>1, <2>2
  <1>9. /\ m = IF F = <<>> THEN query.after ELSE IF Grouped(Last(F)) THEN Jump(Last(F)) ELSE Last(F)
        /\ m = query.after \/ Less(query.after, m)
    <2>1. F # <<>> /\ Last(F) = g
      BY <1>4 DEF Last
    <2>2. Less(query.after, m)
      BY <1>1, <1>3, <1>5, LessThrough
    <2> QED
      BY <1>2, <2>1, <2>2 DEF m
  <1>10. ASSUME NEW k \in stayed, Covers(query.after, k)
         PROVE \/ Entry(k) \in Range(F)
               \/ \E i \in DOMAIN F : Grouped(F[i]) /\ k = Jump(F[i])
               \/ Less(m, k)
    <2>1. DOMAIN F = 1..L + 1 /\ DOMAIN found = 1..L
      BY <1>1, <1>4
    <2>2. CASE Entry(k) \in Range(found)
      <3>1. PICK i \in 1..L : Entry(k) = found[i]
        BY <2>1, <2>2 DEF Range
      <3>2. i \in DOMAIN F /\ Entry(k) = F[i]
        BY <1>4, <2>1, <3>1
      <3> QED
        BY <3>2 DEF Range
    <2>3. CASE \E i \in DOMAIN found : Grouped(found[i]) /\ k = Jump(found[i])
      BY <1>4, <2>1, <2>3
    <2>4. CASE Less(marker, k)
      <3>1. k \in stored /\ k \in Word /\ Covers(marker, k)
        BY <1>10, <2>4 DEF Covers, Words
      <3>2. k = r \/ Less(r, k)
        BY <3>1
      <3>3. Groups(g, k) \/ k = m \/ Less(m, k)
        BY <1>1, <1>2, <3>1, <3>2, JumpIsNext DEF m
      <3>4. L + 1 \in DOMAIN F /\ F[L + 1] = g
        BY <1>4, <2>1
      <3>5. CASE Groups(g, k)
        <4>1. Entry(k) = g
          BY <1>1, <3>1, <3>5, GroupedOnce DEF Entry
        <4> QED
          BY <3>4, <4>1 DEF Range
      <3> QED
        BY <1>2, <3>3, <3>4, <3>5 DEF m
    <2> QED
      BY <1>10, <2>2, <2>3, <2>4 DEF Walk
  <1>11. Walk(F, m)
    BY <1>3, <1>4, <1>7, <1>8, <1>9, <1>10 DEF Walk
  <1> QED
    BY <1>11 DEF F, m, g

----------------------------------------------------------------------------
(* The invariant, one action at a time. *)

LEMMA InitHolds == ListingAssumption /\ Init => IInv
  <1> SUFFICES ASSUME ListingAssumption, Init PROVE IInv
    OBVIOUS
  <1>1. Found = <<>> /\ Len(Found) = 0
    BY DEF Found, Init, NoScan
  <1>2. IsFiniteSet(stored)
    BY FS_EmptySet DEF Init
  <1>3. TypeOK
    BY <1>1 DEF Init, TypeOK, NoScan, NoQuery, ListingAssumption
  <1>4. ListingTyped
    BY <1>1, <1>2 DEF Init, ListingTyped, NoScan
  <1> QED
    BY <1>3, <1>4 DEF Init, IInv, StoredIsSeen, ResumesAfterLast, NothingMissed, Scanning, NoScan

\* While a client lists, the invariant is that of the walk.
LEMMA Walks ==
    ASSUME ListingAssumption, IInv, Scanning
    PROVE Walk(Found, scan.marker)
  <1>1. Words
    BY WordsAre DEF Scanning
  <1>2. scan.marker \in Word
    BY DEF IInv, ListingTyped, Word
  <1>3. \A n \in 1..Len(Found) : Found[n] \in Word
    BY <1>1, EntryIs DEF IInv, TypeOK, Words
  <1>4. Found \in Seq(Word)
    BY <1>3 DEF Found, IInv, ListingTyped, Word
  <1> QED
    BY <1>2, <1>4 DEF Walk, IInv, TypeOK, ResumesAfterLast, NothingMissed, Scanning

\* What the client's calls keep, as long as they walk.
LEMMA WalkOn ==
    ASSUME ListingAssumption, IInv, scan.pc # "idle",
           UNCHANGED <<stored, query, stayed, seen, changes>>,
           scan' \in [pc : {"scan", "page", "last"}, marker : Word,
                      maxKeys : Nat, entries : Seq(Word)],
           listed' \in Seq(Word),
           Len(scan'.entries) <= scan'.maxKeys,
           Walk(Found', scan'.marker),
           scan'.pc = "last" =>
               \A k \in stayed : Covers(query.after, k) => ~Less(scan'.marker, k)
    PROVE IInv'
  <1>0. /\ \A k : Entry(k)' = Entry(k)
        /\ \A k : Covers(query.after, k)' = Covers(query.after, k)
        /\ \A k : Grouped(k)' = Grouped(k)
    BY DEF Entry, Covers, Grouped, Group, Cuts
  <1>1. TypeOK'
    <2>1. \A n \in 2..Len(Found') : Less(Found'[n - 1], Found'[n])
      BY DEF Walk
    <2>2. \A n \in 1..Len(Found') : \E k \in seen' : Covers(query'.after, k) /\ Found'[n] = Entry(k)
      BY DEF Walk
    <2> QED
      BY <1>0, <2>1, <2>2 DEF IInv, TypeOK
  <1>2. ListingTyped'
    BY DEF IInv, ListingTyped, Word
  <1>3. StoredIsSeen'
    BY DEF IInv, StoredIsSeen
  <1>4. ResumesAfterLast'
    BY DEF ResumesAfterLast, Walk, Grouped, Cuts, Jump
  <1>5. NothingMissed'
    <2> SUFFICES ASSUME NEW k \in stayed, Covers(query.after, k)
                 PROVE \/ Entry(k) \in Range(Found')
                       \/ \E n \in DOMAIN Found' : Grouped(Found'[n]) /\ k = Jump(Found'[n])
                       \/ Scanning' /\ Less(scan'.marker, k)
      BY <1>0 DEF NothingMissed
    <2> QED
      BY DEF Walk, Scanning
  <1> QED
    BY <1>1, <1>2, <1>3, <1>4, <1>5 DEF IInv

LEMMA StartHolds ==
    ASSUME ListingAssumption, IInv, NEW p \in Prefix, NEW d \in Delimiter, NEW a \in After,
           NEW m \in MaxKeys, Start(p, d, a, m)
    PROVE IInv'
  <1>1. scan.pc = "idle" /\ seen = {} /\ Found = <<>>
    BY DEF Start, IInv, ListingTyped
  <1>2. listed' = <<>> /\ Found' = <<>> /\ Len(Found') = 0
    <2>1. listed \in Seq(Seq(Nat)) /\ scan.entries \in Seq(Seq(Nat)) /\ listed \o scan.entries = <<>>
      BY <1>1 DEF IInv, ListingTyped, Found
    <2>2. listed = <<>>
      BY <2>1, ConcatEqualIffEmpty
    <2> QED
      BY <2>2 DEF Start, Found
  <1>3. p \in Seq(Nat) /\ a \in Seq(Nat) /\ m \in Nat
    BY DEF ListingAssumption
  <1>4. /\ query' = [prefix |-> p, delimiter |-> d, after |-> a]
        /\ scan' = [pc |-> "scan", marker |-> a, maxKeys |-> m, entries |-> <<>>]
        /\ stayed' = stored /\ seen' = stored /\ stored' = stored /\ changes' = changes
    BY DEF Start
  <1>5. TypeOK'
    BY <1>2, <1>3, <1>4 DEF IInv, TypeOK
  <1>6. ListingTyped'
    BY <1>2, <1>3, <1>4 DEF IInv, ListingTyped
  <1>7. StoredIsSeen' /\ ResumesAfterLast'
    BY <1>2, <1>4 DEF StoredIsSeen, ResumesAfterLast, Scanning
  <1>8. NothingMissed'
    <2>1. \A k : Covers(query.after, k)' => Less(a, k)
      BY <1>4 DEF Covers
    <2> QED
      BY <1>4, <2>1 DEF NothingMissed, Scanning
  <1> QED
    BY <1>5, <1>6, <1>7, <1>8 DEF IInv

\* The lists and sizes of a call, for the steps below.
LEMMA CallTyped ==
    ASSUME ListingAssumption, IInv, scan.pc = "scan"
    PROVE /\ Words /\ Walk(Found, scan.marker)
          /\ listed \in Seq(Word) /\ scan.entries \in Seq(Word)
          /\ scan.maxKeys \in Nat /\ Room \in Nat
          /\ scan \in [pc : {"idle", "scan", "page", "last", "done"}, marker : Word,
                       maxKeys : Nat, entries : Seq(Word)]
          /\ Rows \in Seq(Word) /\ Len(Rows) <= Batch /\ Batch \in Nat \ {0}
          /\ Ungrouped(Rows) \in 0..Len(Rows)
  <1>1. Words
    BY WordsAre
  <1>2. Walk(Found, scan.marker)
    BY Walks DEF Scanning
  <1>3. Batch \in Nat \ {0}
    BY DEF ListingAssumption
  <1>4. Rows \in Seq(Word) /\ Len(Rows) <= Batch
    BY <1>1, <1>3, RowsAre DEF Words
  <1>5. listed \in Seq(Word) /\ scan \in [pc : {"idle", "scan", "page", "last", "done"},
            marker : Word, maxKeys : Nat, entries : Seq(Word)]
    BY DEF IInv, ListingTyped, Word
  <1>6. Len(scan.entries) <= scan.maxKeys
    BY DEF IInv, TypeOK
  <1>7. scan.entries \in Seq(Word) /\ scan.maxKeys \in Nat /\ Len(scan.entries) \in Nat
    BY <1>5
  <1>8. Room \in Nat
    BY <1>6, <1>7 DEF Room
  <1> QED
    BY <1>1, <1>2, <1>3, <1>4, <1>5, <1>7, <1>8, UngroupedIs

\* What a call has found once it takes some rows, and where it stands.
LEMMA TakenWalks ==
    ASSUME ListingAssumption, IInv, scan.pc = "scan", NEW n \in 0..Len(Rows),
           n <= Ungrouped(Rows)
    PROVE /\ Taken(Rows, n) \in Seq(Word) /\ Len(Taken(Rows, n)) = Len(scan.entries) + n
          /\ Walk(listed \o Taken(Rows, n), Marker(Rows, n))
  <1>1. /\ Words /\ Walk(Found, scan.marker) /\ Batch \in Nat \ {0}
        /\ listed \in Seq(Word) /\ scan.entries \in Seq(Word) /\ Rows \in Seq(Word)
    BY CallTyped
  <1> DEFINE s == SubSeq(Rows, 1, n)
  <1>2. s \in Seq(Word) /\ Len(s) = n
    <2>1. Len(Rows) \in Nat
      BY <1>1
    <2> QED
      BY <1>1, <2>1
  <1>3. Walk(Found \o s, Marker(Rows, n))
    BY <1>1, RowsWalk
  <1> DEFINE e == scan.entries
  <1>4. e \in Seq(Word) /\ Found = listed \o e
    BY <1>1 DEF Found
  <1>5. Taken(Rows, n) = e \o s
    BY DEF Taken
  <1> HIDE DEF s, e
  <1>6. (listed \o e) \o s = listed \o (e \o s)
    <2>1. listed \in Seq(Word) /\ e \in Seq(Word) /\ s \in Seq(Word)
      BY <1>1, <1>2, <1>4
    <2> QED
      BY <2>1, ThreeLists, Zenon
  <1>7. e \o s \in Seq(Word) /\ Len(e \o s) = Len(e) + n
    BY <1>2, <1>4, ConcatProperties
  <1> QED
    BY <1>3, <1>4, <1>5, <1>6, <1>7 DEF e

LEMMA FillPageHolds ==
    ASSUME ListingAssumption, IInv, FillPage
    PROVE IInv'
  <1> DEFINE e == Taken(Rows, Room)
             m == Marker(Rows, Room)
  <1>1. scan.pc = "scan" /\ Len(Rows) > Room /\ Ungrouped(Rows) >= Room
    BY DEF FillPage
  <1>2. /\ scan.maxKeys \in Nat /\ Room \in Nat /\ listed \in Seq(Word)
        /\ scan \in [pc : {"idle", "scan", "page", "last", "done"}, marker : Word,
                     maxKeys : Nat, entries : Seq(Word)]
        /\ Rows \in Seq(Word) /\ Ungrouped(Rows) \in 0..Len(Rows)
    BY <1>1, CallTyped
  <1>3. Room \in 0..Len(Rows) /\ Room <= Ungrouped(Rows)
    BY <1>1, <1>2
  <1>4. /\ e \in Seq(Word) /\ Len(e) = Len(scan.entries) + Room
        /\ Walk(listed \o e, m)
    BY <1>1, <1>3, TakenWalks
  <1>5. /\ scan' = [scan EXCEPT !.pc = "page", !.entries = e, !.marker = m]
        /\ UNCHANGED <<stored, query, listed, stayed, seen, changes>>
    BY DEF FillPage, client
  <1> HIDE DEF e, m
  <1>6. /\ scan'.pc = "page" /\ scan'.entries = e /\ scan'.marker = m
        /\ scan'.maxKeys = scan.maxKeys
    BY <1>2, <1>5
  <1>7. m \in Word
    BY <1>4 DEF Walk
  <1>8. scan' \in [pc : {"scan", "page", "last"}, marker : Word, maxKeys : Nat, entries : Seq(Word)]
    BY <1>2, <1>4, <1>5, <1>7
  <1>9. Len(scan'.entries) <= scan'.maxKeys
    <2>1. Len(scan.entries) \in Nat
      BY <1>2
    <2> QED
      BY <1>2, <1>4, <1>6, <2>1 DEF Room
  <1>10. Found' = listed \o e
    BY <1>5, <1>6 DEF Found
  <1> QED
    BY <1>1, <1>2, <1>4, <1>5, <1>6, <1>8, <1>9, <1>10, WalkOn

LEMMA TakeRowsHolds ==
    ASSUME ListingAssumption, IInv, TakeRows
    PROVE IInv'
  <1> DEFINE n == Len(Rows)
             e == Taken(Rows, n)
             m == Marker(Rows, n)
             pc == IF n < Batch THEN "last" ELSE "scan"
  <1>1. scan.pc = "scan" /\ Ungrouped(Rows) = n /\ n <= Room
    BY DEF TakeRows
  <1>2. /\ scan.maxKeys \in Nat /\ Room \in Nat /\ listed \in Seq(Word) /\ Words
        /\ scan \in [pc : {"idle", "scan", "page", "last", "done"}, marker : Word,
                     maxKeys : Nat, entries : Seq(Word)]
        /\ Rows \in Seq(Word) /\ n \in Nat /\ Batch \in Nat \ {0}
    BY <1>1, CallTyped
  <1>3. n \in 0..n /\ n <= Ungrouped(Rows)
    BY <1>1, <1>2
  <1>4. /\ e \in Seq(Word) /\ Len(e) = Len(scan.entries) + n
        /\ Walk(listed \o e, m)
    BY <1>1, <1>3, TakenWalks
  <1>5. /\ scan' = [scan EXCEPT !.pc = pc, !.entries = e, !.marker = m]
        /\ UNCHANGED <<stored, query, listed, stayed, seen, changes>>
    BY DEF TakeRows, client
  <1> HIDE DEF e, m
  <1>6. /\ scan'.pc = pc /\ scan'.entries = e /\ scan'.marker = m
        /\ scan'.maxKeys = scan.maxKeys
    BY <1>2, <1>5
  <1>7. m \in Word
    BY <1>4 DEF Walk
  <1>8. scan' \in [pc : {"scan", "page", "last"}, marker : Word, maxKeys : Nat, entries : Seq(Word)]
    BY <1>2, <1>4, <1>5, <1>7
  <1>9. Len(scan'.entries) <= scan'.maxKeys
    <2>1. Len(scan.entries) \in Nat
      BY <1>2
    <2> QED
      BY <1>1, <1>2, <1>4, <1>6, <2>1 DEF Room
  <1>10. Found' = listed \o e
    BY <1>5, <1>6 DEF Found
  <1>11. ASSUME scan'.pc = "last", NEW k \in stayed, Covers(query.after, k), Less(m, k)
         PROVE FALSE
    <2>1. n < Batch
      BY <1>6, <1>11
    <2>2. m = IF n = 0 THEN scan.marker ELSE Rows[n]
      BY DEF m, Marker
    <2>3. /\ \A i \in 1..n : Rows[i] \in Covered
          /\ \A i, j \in 1..n : i < j => Less(Rows[i], Rows[j])
          /\ \A l \in Covered : \E i \in 1..n : l = Rows[i]
      BY <1>2, <2>1, RowsAre DEF Words
    <2>4. k \in Word /\ k \in stored /\ m \in Word /\ scan.marker \in Word
      BY <1>2, <1>7 DEF Words
    <2>5. Less(scan.marker, k)
      <3>1. CASE n = 0
        BY <1>11, <2>2, <3>1
      <3>2. CASE n > 0
        <4>1. n \in 1..n
          BY <1>2, <3>2
        <4>2. Less(scan.marker, m)
          BY <2>2, <2>3, <3>2, <4>1 DEF Covered, Covers
        <4> QED
          BY <1>11, <2>4, <4>2, LessThrough
      <3> QED
        BY <1>2, <3>1, <3>2
    <2>6. k \in Covered
      BY <1>11, <2>4, <2>5 DEF Covered, Covers
    <2>7. PICK i \in 1..n : k = Rows[i]
      BY <2>3, <2>6
    <2>8. n \in 1..n /\ m = Rows[n] /\ (i < n \/ i = n)
      BY <1>2, <2>2, <2>7
    <2>9. Less(k, m) \/ k = m
      BY <2>3, <2>7, <2>8
    <2>10. Less(k, k)
      BY <1>11, <2>4, <2>9, LessThrough
    <2> QED
      BY <2>4, <2>10, LessNever
  <1>12. scan.pc # "idle" /\ listed' \in Seq(Word)
    BY <1>1, <1>2, <1>5
  <1> QED
    BY <1>4, <1>5, <1>6, <1>8, <1>9, <1>10, <1>11, <1>12, WalkOn

LEMMA SkipGroupHolds ==
    ASSUME ListingAssumption, IInv, SkipGroup
    PROVE IInv'
  <1> DEFINE n == Ungrouped(Rows)
             r == Rows[n + 1]
             t == Taken(Rows, n)
             m == Marker(Rows, n)
             e == Append(t, Group(r))
  <1>1. scan.pc = "scan" /\ n < Len(Rows) /\ n < Room
    BY DEF SkipGroup
  <1>2. /\ scan.maxKeys \in Nat /\ Room \in Nat /\ listed \in Seq(Word) /\ Words
        /\ scan \in [pc : {"idle", "scan", "page", "last", "done"}, marker : Word,
                     maxKeys : Nat, entries : Seq(Word)]
        /\ Rows \in Seq(Word) /\ n \in 0..Len(Rows) /\ Len(Rows) \in Nat /\ Batch \in Nat \ {0}
    BY <1>1, CallTyped
  <1>3. Grouped(r)
    BY <1>1, <1>2, UngroupedIs
  <1>4. /\ t \in Seq(Word) /\ Len(t) = Len(scan.entries) + n
        /\ Walk(listed \o t, m)
    BY <1>1, <1>2, TakenWalks
  <1>5. /\ scan' = [scan EXCEPT !.entries = e, !.marker = Jump(Group(r))]
        /\ UNCHANGED <<stored, query, listed, stayed, seen, changes>>
    BY DEF SkipGroup, client
  <1>6. m = IF n = 0 THEN scan.marker ELSE Rows[n]
    BY DEF Marker
  <1>7. /\ \A i \in 1..Len(Rows) : Rows[i] \in Covered
        /\ \A i, j \in 1..Len(Rows) : i < j => Less(Rows[i], Rows[j])
        /\ \A l \in Covered :
              \/ \E i \in 1..Len(Rows) : l = Rows[i]
              \/ \A i \in 1..Len(Rows) : Less(Rows[i], l)
    BY <1>2, RowsAre DEF Words
  <1> HIDE DEF n, t, m
  <1>8. n + 1 \in 1..Len(Rows) /\ (n = 0 \/ n \in 1..Len(Rows)) /\ n \in Nat
    BY <1>1, <1>2
  <1>9. r \in stored /\ r \in Word /\ Covers(m, r)
    BY <1>2, <1>6, <1>7, <1>8 DEF Covered, Covers, Words
  <1>10. m \in Word /\ scan.marker \in Word
    BY <1>2, <1>4 DEF Walk
  <1>11. ASSUME NEW k \in stored, Covers(m, k) PROVE k = r \/ Less(r, k)
    <2>1. k \in Word /\ Less(m, k)
      BY <1>2, <1>11 DEF Words, Covers
    <2>2. n # 0 => Less(scan.marker, m)
      BY <1>6, <1>7, <1>8 DEF Covered, Covers
    <2>3. Less(scan.marker, k)
      BY <1>6, <1>10, <2>1, <2>2, LessThrough
    <2>4. k \in Covered
      BY <1>11, <2>3 DEF Covered, Covers
    <2>5. CASE \E i \in 1..Len(Rows) : k = Rows[i]
      <3>1. PICK i \in 1..Len(Rows) : k = Rows[i]
        BY <2>5
      <3>2. i > n
        <4>1. ASSUME i <= n PROVE FALSE
          <5>1. n \in 1..Len(Rows) /\ m = Rows[n] /\ (i < n \/ i = n)
            BY <1>6, <1>8, <3>1, <4>1
          <5>2. Less(k, m) \/ k = m
            BY <1>7, <3>1, <5>1
          <5>3. Less(k, k)
            BY <1>10, <2>1, <5>2, LessThrough
          <5> QED
            BY <2>1, <5>3, LessNever
        <4> QED
          BY <1>8, <3>1, <4>1
      <3>3. i = n + 1 \/ n + 1 < i
        BY <1>8, <3>1, <3>2
      <3> QED
        BY <1>7, <1>8, <3>1, <3>3
    <2>6. CASE \A i \in 1..Len(Rows) : Less(Rows[i], k)
      BY <1>8, <2>6
    <2> QED
      BY <1>7, <2>4, <2>5, <2>6
  <1> DEFINE F == listed \o t
  <1>12. Walk(F, m) /\ F \in Seq(Word)
    BY <1>4 DEF Walk
  <1> HIDE DEF F
  <1>13. Walk(Append(F, Group(r)), Jump(Group(r)))
    BY <1>2, <1>3, <1>9, <1>11, <1>12, GroupWalks
  <1>14. Group(r) \in Word /\ Jump(Group(r)) \in Word
    <2>1. Entry(r) = Group(r) /\ query.prefix \in Word
      BY <1>2, <1>3 DEF Entry, Words
    <2>2. Group(r) \in Word
      BY <1>9, <2>1, EntryIs
    <2> QED
      BY <1>13, <2>2 DEF Walk
  <1> HIDE DEF r
  <1>15. e \in Seq(Word) /\ Len(e) = Len(t) + 1
    BY <1>4, <1>14
  <1>16. Append(F, Group(r)) = listed \o e
    <2>1. <<Group(r)>> \in Seq(Word)
      BY <1>14
    <2>2. Append(F, Group(r)) = F \o <<Group(r)>> /\ e = t \o <<Group(r)>>
      BY <1>4, <1>12, <1>14, AppendIsConcat
    <2>3. (listed \o t) \o <<Group(r)>> = listed \o (t \o <<Group(r)>>)
      BY <1>2, <1>4, <2>1, ThreeLists, Zenon
    <2> QED
      BY <2>2, <2>3 DEF F
  <1> HIDE DEF e
  <1>17. /\ scan'.pc = "scan" /\ scan'.entries = e /\ scan'.marker = Jump(Group(r))
         /\ scan'.maxKeys = scan.maxKeys
    BY <1>1, <1>2, <1>5
  <1>18. scan' \in [pc : {"scan", "page", "last"}, marker : Word, maxKeys : Nat, entries : Seq(Word)]
    BY <1>1, <1>2, <1>5, <1>14, <1>15
  <1>19. Len(scan'.entries) <= scan'.maxKeys
    <2>1. Len(scan.entries) \in Nat
      BY <1>2
    <2> QED
      BY <1>1, <1>2, <1>4, <1>8, <1>15, <1>17, <2>1 DEF Room
  <1>20. Found' = listed \o e
    BY <1>5, <1>17 DEF Found
  <1>21. Walk(Found', scan'.marker)
    BY <1>13, <1>16, <1>17, <1>20
  <1> QED
    BY <1>1, <1>2, <1>5, <1>17, <1>18, <1>19, <1>21, WalkOn

\* The client takes a page: what it was given becomes part of what it has.
LEMMA PageTaken ==
    ASSUME IInv, listed' = listed \o scan.entries, scan'.entries = <<>>
    PROVE listed' \in Seq(Seq(Nat)) /\ Found' = Found
  <1>1. listed \in Seq(Seq(Nat)) /\ scan.entries \in Seq(Seq(Nat))
    BY DEF IInv, ListingTyped
  <1> DEFINE l == listed \o scan.entries
  <1>2. l \in Seq(Seq(Nat))
    BY <1>1
  <1>3. Found' = l \o <<>> /\ Found = l
    BY DEF Found
  <1> HIDE DEF l
  <1> QED
    BY <1>2, <1>3, ConcatEmptySeq DEF l

LEMMA NextPageHolds ==
    ASSUME ListingAssumption, IInv, NEW m \in MaxKeys, NextPage(m)
    PROVE IInv'
  <1>1. scan.pc = "page" /\ Scanning
    BY DEF NextPage, Scanning
  <1>2. /\ scan' = [scan EXCEPT !.pc = "scan", !.entries = <<>>, !.maxKeys = m]
        /\ listed' = listed \o scan.entries
        /\ UNCHANGED <<stored, query, stayed, seen, changes>>
    BY DEF NextPage
  <1>3. /\ scan \in [pc : {"idle", "scan", "page", "last", "done"}, marker : Word,
                     maxKeys : Nat, entries : Seq(Word)]
        /\ m \in Nat
    BY DEF IInv, ListingTyped, Word, ListingAssumption
  <1>4. scan'.pc = "scan" /\ scan'.entries = <<>> /\ scan'.marker = scan.marker /\ scan'.maxKeys = m
    BY <1>2, <1>3
  <1>5. scan' \in [pc : {"scan", "page", "last"}, marker : Word, maxKeys : Nat, entries : Seq(Word)]
    <2> DEFINE none == <<>>
    <2>1. none \in Seq(Word)
      OBVIOUS
    <2>2. scan' = [scan EXCEPT !.pc = "scan", !.entries = none, !.maxKeys = m]
      BY <1>2
    <2> HIDE DEF none
    <2> QED
      BY <1>3, <2>1, <2>2
  <1>6. listed' \in Seq(Word) /\ Found' = Found
    BY <1>2, <1>4, PageTaken DEF Word
  <1>7. Walk(Found', scan'.marker)
    BY <1>1, <1>4, <1>6, Walks
  <1>8. Len(scan'.entries) <= scan'.maxKeys
    BY <1>3, <1>4, EmptySeq
  <1> QED
    BY <1>1, <1>2, <1>4, <1>5, <1>6, <1>7, <1>8, WalkOn

LEMMA LastPageHolds ==
    ASSUME ListingAssumption, IInv, LastPage
    PROVE IInv'
  <1>1. /\ scan.pc = "last" /\ scan' = [scan EXCEPT !.pc = "done", !.entries = <<>>]
        /\ listed' = listed \o scan.entries
        /\ UNCHANGED <<stored, query, stayed, seen, changes>>
    BY DEF LastPage
  <1>2. scan \in [pc : {"idle", "scan", "page", "last", "done"}, marker : Seq(Nat),
                  maxKeys : Nat, entries : Seq(Seq(Nat))]
    BY DEF IInv, ListingTyped
  <1>3. scan'.pc = "done" /\ scan'.entries = <<>> /\ scan'.maxKeys = scan.maxKeys
    BY <1>1, <1>2
  <1>4. listed' \in Seq(Seq(Nat)) /\ Found' = Found
    BY <1>1, <1>3, PageTaken
  <1>5. /\ \A k : Entry(k)' = Entry(k)
        /\ \A k : Covers(query.after, k)' = Covers(query.after, k)
        /\ \A k : Grouped(k)' = Grouped(k)
    BY <1>1 DEF Entry, Covers, Grouped, Group, Cuts
  <1>6. TypeOK'
    <2>1. Len(scan'.entries) <= scan'.maxKeys
      BY <1>2, <1>3, EmptySeq
    <2>2. \A n \in 1..Len(Found') :
             \E k \in seen' : Covers(query.after, k)' /\ Found'[n] = Entry(k)'
      BY <1>1, <1>4, <1>5 DEF IInv, TypeOK
    <2>3. \A n \in 2..Len(Found') : Less(Found'[n - 1], Found'[n])
      BY <1>4 DEF IInv, TypeOK
    <2>4. query' = query /\ scan'.pc = "done"
      BY <1>1, <1>3
    <2> QED
      BY <1>1, <2>1, <2>2, <2>3, <2>4 DEF IInv, TypeOK
  <1>7. ListingTyped'
    <2> DEFINE none == <<>>
    <2>1. none \in Seq(Seq(Nat))
      OBVIOUS
    <2>2. scan' = [scan EXCEPT !.pc = "done", !.entries = none]
      BY <1>1
    <2> HIDE DEF none
    <2>3. scan' \in [pc : {"idle", "scan", "page", "last", "done"}, marker : Seq(Nat),
                      maxKeys : Nat, entries : Seq(Seq(Nat))]
      BY <1>2, <2>1, <2>2
    <2>4. IsFiniteSet(stored)'
      BY <1>1 DEF IInv, ListingTyped
    <2> QED
      BY <1>3, <1>4, <2>3, <2>4 DEF ListingTyped
  <1>8. StoredIsSeen' /\ ResumesAfterLast'
    BY <1>1, <1>3 DEF IInv, StoredIsSeen, ResumesAfterLast, Scanning
  <1>9. NothingMissed'
    BY <1>1, <1>4, <1>5 DEF IInv, NothingMissed, Scanning
  <1> QED
    BY <1>6, <1>7, <1>8, <1>9 DEF IInv

\* A change of the keys keeps what was seen, and no more keys stay.
LEMMA ChangeHolds ==
    ASSUME ListingAssumption, IInv, Change, UNCHANGED <<query, listed, scan>>,
           stored' \subseteq Key, IsFiniteSet(stored'),
           stayed' \subseteq stayed, stayed' \subseteq stored', seen \subseteq seen',
           seen' \subseteq Key,
           IF scan.pc = "idle" THEN seen' = {} ELSE stored' \subseteq seen'
    PROVE IInv'
  <1>1. Found' = Found
    BY DEF Found
  <1>2. changes' \in 0..Changes
    BY DEF Change, ListingAssumption, IInv, TypeOK
  <1>3. /\ \A k : Entry(k)' = Entry(k)
        /\ \A k : Covers(query.after, k)' = Covers(query.after, k)
        /\ \A k : Grouped(k)' = Grouped(k)
    BY DEF Entry, Covers, Grouped, Group, Cuts
  <1>4. TypeOK'
    BY <1>1, <1>2, <1>3 DEF IInv, TypeOK
  <1>5. ListingTyped'
    BY <1>1 DEF IInv, ListingTyped
  <1>6. StoredIsSeen'
    BY DEF StoredIsSeen
  <1>7. ResumesAfterLast'
    BY <1>1, <1>3 DEF IInv, ResumesAfterLast, Scanning, Jump
  <1>8. NothingMissed'
    BY <1>1, <1>3 DEF IInv, NothingMissed, Scanning
  <1> QED
    BY <1>4, <1>5, <1>6, <1>7, <1>8 DEF IInv

LEMMA PutHolds ==
    ASSUME ListingAssumption, IInv, NEW k \in Key, Put(k)
    PROVE IInv'
  <1>1. IsFiniteSet(stored') /\ stored' = stored \cup {k}
    BY FS_AddElement DEF Put, IInv, ListingTyped
  <1> QED
    BY <1>1, ChangeHolds DEF Put, IInv, TypeOK, ListingTyped, StoredIsSeen, client

LEMMA DeleteHolds ==
    ASSUME ListingAssumption, IInv, NEW k \in stored, Delete(k)
    PROVE IInv'
  <1>1. IsFiniteSet(stored') /\ stored' = stored \ {k}
    BY FS_RemoveElement DEF Delete, IInv, ListingTyped
  <1> QED
    BY <1>1, ChangeHolds DEF Delete, IInv, TypeOK, ListingTyped, StoredIsSeen, client

LEMMA FinishHolds ==
    ASSUME ListingAssumption, IInv, Finish
    PROVE IInv'
  <1>1. /\ query' = NoQuery /\ scan' = NoScan /\ listed' = <<>> /\ stayed' = {} /\ seen' = {}
        /\ changes' = 0 /\ stored' = stored
    BY DEF Finish
  <1>2. Found' = <<>> /\ Len(Found') = 0
    BY <1>1 DEF Found, NoScan
  <1>3. TypeOK'
    BY <1>1, <1>2 DEF IInv, TypeOK, NoScan, NoQuery, ListingAssumption
  <1>4. ListingTyped'
    BY <1>1, <1>2 DEF IInv, ListingTyped, NoScan
  <1> QED
    BY <1>1, <1>3, <1>4 DEF IInv, StoredIsSeen, ResumesAfterLast, NothingMissed, Scanning, NoScan

LEMMA StutterHolds ==
    ASSUME IInv, UNCHANGED vars
    PROVE IInv'
  <1>1. UNCHANGED <<stored, query, listed, scan, stayed, seen, changes>>
    BY DEF vars, client
  <1>2. /\ \A k : Entry(k)' = Entry(k)
        /\ \A k : Covers(query.after, k)' = Covers(query.after, k)
        /\ \A k : Grouped(k)' = Grouped(k)
        /\ Found' = Found
    BY <1>1 DEF Entry, Covers, Grouped, Group, Cuts, Found
  <1> QED
    BY <1>1, <1>2 DEF IInv, TypeOK, ListingTyped, StoredIsSeen, ResumesAfterLast, NothingMissed,
                      Scanning, Jump

LEMMA NextHolds ==
    ASSUME ListingAssumption, IInv, [Next]_vars
    PROVE IInv'
  <1>1. ASSUME NEW p \in Prefix, NEW d \in Delimiter, NEW a \in After, NEW m \in MaxKeys,
               Start(p, d, a, m)
        PROVE IInv'
    BY <1>1, StartHolds
  <1>2. CASE FillPage
    BY <1>2, FillPageHolds
  <1>3. CASE SkipGroup
    BY <1>3, SkipGroupHolds
  <1>4. CASE TakeRows
    BY <1>4, TakeRowsHolds
  <1>5. ASSUME NEW m \in MaxKeys, NextPage(m) PROVE IInv'
    BY <1>5, NextPageHolds
  <1>6. CASE LastPage
    BY <1>6, LastPageHolds
  <1>7. ASSUME NEW k \in Key, Put(k) PROVE IInv'
    BY <1>7, PutHolds
  <1>8. ASSUME NEW k \in stored, Delete(k) PROVE IInv'
    BY <1>8, DeleteHolds
  <1>9. CASE Finish
    BY <1>9, FinishHolds
  <1>10. CASE UNCHANGED vars
    BY <1>10, StutterHolds
  <1> QED
    BY <1>1, <1>2, <1>3, <1>4, <1>5, <1>6, <1>7, <1>8, <1>9, <1>10 DEF Next

----------------------------------------------------------------------------
(* The theorems. *)

\* The inductive invariant: the scan goes on after the last entry it found, and
\* a key that stayed is found, or skipped over, or still ahead of the scan.
THEOREM ListingInvariantHolds == ASSUME ListingAssumption PROVE Spec => []IInv
  <1>1. ASSUME IInv, [Next]_vars PROVE IInv'
    BY <1>1, NextHolds
  <1> QED
    BY <1>1, InitHolds, PTL DEF Spec

\* Entries come in key order over all pages, none twice, and each stands for a
\* key that was stored while the client listed (ListObjects: what a page has,
\* and the marker or token it is resumed from).
THEOREM ListingTypeCorrect == ASSUME ListingAssumption PROVE Spec => []TypeOK
  <1>1. IInv => TypeOK
    BY DEF IInv
  <1> QED
    BY <1>1, ListingInvariantHolds, PTL

\* Pages over any keys, resumed any number of times while others put and delete,
\* list every key that stays stored, itself or in its group, but for a key that
\* is the very successor of a group (ListObjects: the byte after the group).
THEOREM ListingListsWhatStays == ASSUME ListingAssumption PROVE Spec => []ListsWhatStays
  <1>1. IInv => ListsWhatStays
    <2> SUFFICES ASSUME IInv, scan.pc = "done", NEW k \in stayed, Covers(query.after, k)
                 PROVE \/ Entry(k) \in Range(listed)
                       \/ \E n \in DOMAIN listed : Grouped(listed[n]) /\ k = Jump(listed[n])
      BY DEF ListsWhatStays
    <2>1. Found = listed
      BY ConcatEmptySeq DEF IInv, ListingTyped, Found
    <2> QED
      BY <2>1 DEF IInv, NothingMissed, Scanning
  <1> QED
    BY <1>1, ListingInvariantHolds, PTL
=============================================================================
