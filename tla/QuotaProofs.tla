----------------------------- MODULE QuotaProofs -----------------------------
(***************************************************************************)
(* Proofs of Quota, for any number of namespaces, keys, writers and folds  *)
(* and any quota: the counters and deltas say exactly what is stored, and  *)
(* the team never stores more than its quota.                              *)
(*                                                                         *)
(* First sums over finite sets, which the community modules define as      *)
(* folds: what each summand adds, and what a change of one does. Induction *)
(* here is over the subsets of a finite set, by a least counterexample:    *)
(* strict inclusion is well-founded there, and that is a fact that takes   *)
(* no operator for the property shown.                                     *)
(***************************************************************************)
EXTENDS QuotaInvariant, FiniteSetTheorems, TLAPS

----------------------------------------------------------------------------
(* Sums. *)

\* The element a fold takes next, and the equation that a fold of f over the
\* subsets of S solves (SumFunctionOnSet, as the community modules define it).
Picked(s) == CHOOSE x \in s : TRUE
Adds(g, f, S) ==
    g = [s \in SUBSET S |-> IF s = {} THEN 0 ELSE f[Picked(s)] + g[s \ {Picked(s)}]]

\* A sum is what the chosen solution says of the whole set.
LEMMA SumIsChosen ==
    ASSUME NEW f, NEW S
    PROVE SumFunctionOnSet(f, S) = (CHOOSE g : Adds(g, f, S))[S]
  BY DEF SumFunctionOnSet, FoldFunctionOnSet, MapThenFoldSet, Adds, Picked

\* Of the subsets of a finite set that a set of them has, one has none below it.
LEMMA LeastSubset ==
    ASSUME NEW S, IsFiniteSet(S), NEW B, B \subseteq SUBSET S, B # {}
    PROVE \E T \in B : \A U \in B : U \subseteq T => U = T
  <1>1. FiniteSubsetsOf(S) = SUBSET S
    BY FS_FiniteSubsetsOfFinite
  <1>2. IsWellFoundedOn(StrictSubsetOrdering(S), SUBSET S)
    BY <1>1, FS_StrictSubsetOrderingWellFounded
  <1>3. PICK T \in B : \A U \in B : <<U, T>> \notin StrictSubsetOrdering(S)
    BY <1>2, WFMin, Zenon
  <1>4. ASSUME NEW U \in B, U \subseteq T PROVE U = T
    BY <1>3, <1>4 DEF StrictSubsetOrdering
  <1> QED
    BY <1>4

\* A set that is not empty has the element picked.
LEMMA PickedIn == \A s : s # {} => Picked(s) \in s
  BY DEF Picked

\* The equation has one solution at most: two would differ on a least subset.
LEMMA AddsOnce ==
    ASSUME NEW f, NEW S, IsFiniteSet(S), NEW g, NEW h, Adds(g, f, S), Adds(h, f, S)
    PROVE g = h
  <1> DEFINE B == {s \in SUBSET S : g[s] # h[s]}
  <1>0. B \subseteq SUBSET S
    OBVIOUS
  <1>1. ASSUME B # {} PROVE FALSE
    <2>1. PICK T \in B : \A U \in B : U \subseteq T => U = T
      <3> HIDE DEF B
      <3> QED BY <1>1, <1>0, LeastSubset
    <2>2. T # {}
      BY <2>1 DEF Adds
    <2>3. T \ {Picked(T)} \in SUBSET S /\ T \ {Picked(T)} \subseteq T /\ T \ {Picked(T)} # T
      BY <2>2, PickedIn
    <2>4. g[T \ {Picked(T)}] = h[T \ {Picked(T)}]
      BY <2>1, <2>3
    <2> QED
      BY <2>1, <2>2, <2>4 DEF Adds
  <1> QED
    BY <1>1 DEF Adds

\* A solution over S, restricted, is one over a subset of S.
LEMMA AddsBelow ==
    ASSUME NEW f, NEW S, NEW U \in SUBSET S, NEW g, Adds(g, f, S)
    PROVE Adds([s \in SUBSET U |-> g[s]], f, U)
  <1> DEFINE h == [s \in SUBSET U |-> g[s]]
  <1>1. ASSUME NEW s \in SUBSET U
        PROVE h[s] = IF s = {} THEN 0 ELSE f[Picked(s)] + h[s \ {Picked(s)}]
    <2>1. s \in SUBSET S /\ s \ {Picked(s)} \in SUBSET U
      OBVIOUS
    <2>2. h[s] = g[s] /\ h[s \ {Picked(s)}] = g[s \ {Picked(s)}]
      BY <2>1
    <2> HIDE DEF h
    <2> QED
      BY <2>1, <2>2 DEF Adds
  <1> DEFINE e(s) == IF s = {} THEN 0 ELSE f[Picked(s)] + h[s \ {Picked(s)}]
  <1>2. h = [s \in SUBSET U |-> h[s]]
    OBVIOUS
  <1>3. h = [s \in SUBSET U |-> e(s)]
    BY <1>1, <1>2
  <1> HIDE DEF h
  <1> QED
    BY <1>3 DEF Adds

\* The equation has a solution: were there subsets without one, a least of them
\* would have one, put together from that of one element less.
LEMMA AddsExists ==
    ASSUME NEW f, NEW S, IsFiniteSet(S)
    PROVE \E g : Adds(g, f, S)
  <1> DEFINE B == {T \in SUBSET S : ~\E g : Adds(g, f, T)}
  <1>0. B \subseteq SUBSET S
    OBVIOUS
  <1>1. ASSUME B # {} PROVE FALSE
    <2>1. PICK T \in B : \A U \in B : U \subseteq T => U = T
      <3> HIDE DEF B
      <3> QED BY <1>1, <1>0, LeastSubset
    <2>0. \A U \in SUBSET T : IsFiniteSet(U)
      BY FS_Subset
    <2> DEFINE G(s) == (CHOOSE g : Adds(g, f, s))[s]
               e(s) == IF s = {} THEN 0 ELSE f[Picked(s)] + G(s \ {Picked(s)})
               g == [s \in SUBSET T |-> e(s)]
    <2>2. ASSUME NEW s \in SUBSET T, s # T PROVE g[s] = G(s)
      <3>1. \E h : Adds(h, f, s)
        BY <2>1, <2>2
      <3> DEFINE h == CHOOSE h : Adds(h, f, s)
      <3>2. Adds(h, f, s)
        BY <3>1
      <3>3. CASE s = {}
        BY <3>2, <3>3 DEF Adds
      <3>4. CASE s # {}
        <4> DEFINE u == s \ {Picked(s)}
                   k == CHOOSE k : Adds(k, f, u)
                   j == [v \in SUBSET u |-> h[v]]
        <4>1. u \in SUBSET s /\ u \in SUBSET T /\ u # T
          BY <2>2
        <4>2. \E x : Adds(x, f, u)
          BY <2>1, <4>1
        <4>3. Adds(k, f, u)
          BY <4>2
        <4>4. Adds(j, f, u)
          BY <3>2, <4>1, AddsBelow
        <4>5. j = k
          <5> HIDE DEF j, k, u
          <5> QED BY <4>3, <4>4, <4>1, <2>0, AddsOnce
        <4>6. h[u] = k[u]
          <5>1. j[u] = h[u]
            OBVIOUS
          <5> HIDE DEF j, k
          <5> QED BY <5>1, <4>5
        <4>7. h[s] = f[Picked(s)] + h[u]
          <5> HIDE DEF h
          <5> QED BY <3>2, <3>4 DEF Adds
        <4>8. g[s] = f[Picked(s)] + k[u]
          BY <3>4
        <4> HIDE DEF g, h, k, u
        <4>9. g[s] = h[s]
          BY <4>6, <4>7, <4>8
        <4> QED
          BY <4>9 DEF h
      <3> QED
        BY <3>3, <3>4
    <2>3. ASSUME NEW s \in SUBSET T, s # {} PROVE e(s) = f[Picked(s)] + g[s \ {Picked(s)}]
      <3>1. s \ {Picked(s)} \in SUBSET T /\ s \ {Picked(s)} # T
        BY <2>3, PickedIn
      <3>2. g[s \ {Picked(s)}] = G(s \ {Picked(s)})
        BY <3>1, <2>2
      <3> HIDE DEF g, G
      <3> QED
        BY <2>3, <3>2
    <2>4. \A s \in SUBSET T : e(s) = IF s = {} THEN 0 ELSE f[Picked(s)] + g[s \ {Picked(s)}]
      <3> HIDE DEF g, G
      <3> QED BY <2>3
    <2>5. g = [s \in SUBSET T |-> e(s)]
      OBVIOUS
    <2>6. Adds(g, f, T)
      <3> HIDE DEF g, e
      <3> QED BY <2>4, <2>5 DEF Adds
    <2> QED
      BY <2>1, <2>6
  <1> QED
    BY <1>1

\* The equation of a sum.
LEMMA SumEquation ==
    ASSUME NEW f, NEW S, IsFiniteSet(S)
    PROVE SumFunctionOnSet(f, S) =
             IF S = {} THEN 0 ELSE f[Picked(S)] + SumFunctionOnSet(f, S \ {Picked(S)})
  <1> DEFINE u == S \ {Picked(S)}
             h == CHOOSE g : Adds(g, f, S)
             k == CHOOSE g : Adds(g, f, u)
             j == [v \in SUBSET u |-> h[v]]
  <1>1. IsFiniteSet(u) /\ u \in SUBSET S
    BY FS_Subset
  <1>2. Adds(h, f, S)
    BY AddsExists
  <1>3. Adds(k, f, u)
    BY <1>1, AddsExists
  <1>4. Adds(j, f, u)
    BY <1>1, <1>2, AddsBelow
  <1>5. j = k
    <2> HIDE DEF j, k, u
    <2> QED BY <1>1, <1>3, <1>4, AddsOnce
  <1>6. h[u] = k[u]
    <2>1. j[u] = h[u]
      OBVIOUS
    <2> HIDE DEF j, k
    <2> QED BY <2>1, <1>5
  <1>7. SumFunctionOnSet(f, S) = h[S] /\ SumFunctionOnSet(f, u) = k[u]
    BY SumIsChosen
  <1> HIDE DEF h, k, u
  <1>8. h[S] = IF S = {} THEN 0 ELSE f[Picked(S)] + h[S \ {Picked(S)}]
    BY <1>2 DEF Adds
  <1> QED
    BY <1>6, <1>7, <1>8 DEF u

\* The induction step the lemmas below share: T has an element, picked, and
\* the sum over the others is a sum over a smaller set.
LEMMA SumStep ==
    ASSUME NEW f, NEW S, IsFiniteSet(S), NEW T \in SUBSET S, T # {}
    PROVE /\ Picked(T) \in T
          /\ T \ {Picked(T)} \in SUBSET S
          /\ T \ {Picked(T)} \subseteq T
          /\ T \ {Picked(T)} # T
          /\ SumFunctionOnSet(f, T) = f[Picked(T)] + SumFunctionOnSet(f, T \ {Picked(T)})
  <1>1. IsFiniteSet(T)
    BY FS_Subset
  <1> QED
    BY <1>1, PickedIn, SumEquation

\* The sum over nothing.
LEMMA SumOfNone ==
    ASSUME NEW f
    PROVE SumFunctionOnSet(f, {}) = 0
  BY SumEquation, FS_EmptySet

\* What holds of the empty set, and of a set when it holds of what is left once
\* an element is picked, holds of every subset.
LEMMA PickingInduction ==
    ASSUME NEW S, IsFiniteSet(S), NEW G, {} \in G,
           \A T \in SUBSET S : T # {} /\ T \ {Picked(T)} \in G => T \in G
    PROVE SUBSET S \subseteq G
  <1> DEFINE B == (SUBSET S) \ G
  <1>1. B \subseteq SUBSET S
    OBVIOUS
  <1>2. ASSUME B # {} PROVE FALSE
    <2>1. PICK T \in B : \A U \in B : U \subseteq T => U = T
      <3> HIDE DEF B
      <3> QED BY <1>1, <1>2, LeastSubset
    <2>2. T # {} /\ T \in SUBSET S
      OBVIOUS
    <2>3. T \ {Picked(T)} \subseteq T /\ T \ {Picked(T)} # T
      BY <2>2, PickedIn
    <2>4. T \ {Picked(T)} \in G
      BY <2>1, <2>2, <2>3
    <2> QED
      BY <2>2, <2>4
  <1> QED
    BY <1>2

\* A sum is a number, and a natural one if its summands are.
LEMMA SumIsInt ==
    ASSUME NEW f, NEW S, IsFiniteSet(S), \A x \in S : f[x] \in Int
    PROVE \A T \in SUBSET S : SumFunctionOnSet(f, T) \in Int
  <1> DEFINE G == {T \in SUBSET S : SumFunctionOnSet(f, T) \in Int}
  <1>1. {} \in G
    BY SumOfNone
  <1>2. ASSUME NEW T \in SUBSET S, T # {}, T \ {Picked(T)} \in G PROVE T \in G
    <2>1. Picked(T) \in T /\ SumFunctionOnSet(f, T) = f[Picked(T)] + SumFunctionOnSet(f, T \ {Picked(T)})
      BY <1>2, SumStep
    <2>2. f[Picked(T)] \in Int /\ SumFunctionOnSet(f, T \ {Picked(T)}) \in Int
      BY <1>2, <2>1
    <2>3. SumFunctionOnSet(f, T) \in Int
      BY <2>1, <2>2
    <2> QED
      BY <2>3
  <1> HIDE DEF G
  <1>3. SUBSET S \subseteq G
    BY <1>1, <1>2, PickingInduction
  <1> QED
    BY <1>3 DEF G

\* Natural numbers add up to one.
LEMMA SumIsNat ==
    ASSUME NEW f, NEW S, IsFiniteSet(S), \A x \in S : f[x] \in Nat
    PROVE \A T \in SUBSET S : SumFunctionOnSet(f, T) \in Nat
  <1> DEFINE G == {T \in SUBSET S : SumFunctionOnSet(f, T) \in Nat}
  <1>1. {} \in G
    BY SumOfNone
  <1>2. ASSUME NEW T \in SUBSET S, T # {}, T \ {Picked(T)} \in G PROVE T \in G
    <2>1. Picked(T) \in T /\ SumFunctionOnSet(f, T) = f[Picked(T)] + SumFunctionOnSet(f, T \ {Picked(T)})
      BY <1>2, SumStep
    <2>2. f[Picked(T)] \in Nat /\ SumFunctionOnSet(f, T \ {Picked(T)}) \in Nat
      BY <1>2, <2>1
    <2>3. SumFunctionOnSet(f, T) \in Nat
      BY <2>1, <2>2
    <2> QED
      BY <2>3
  <1> HIDE DEF G
  <1>3. SUBSET S \subseteq G
    BY <1>1, <1>2, PickingInduction
  <1> QED
    BY <1>3 DEF G

\* Only the summands matter.
LEMMA SumsOfSame ==
    ASSUME NEW f, NEW g, NEW S, IsFiniteSet(S), \A x \in S : f[x] = g[x]
    PROVE \A T \in SUBSET S : SumFunctionOnSet(f, T) = SumFunctionOnSet(g, T)
  <1> DEFINE G == {T \in SUBSET S : SumFunctionOnSet(f, T) = SumFunctionOnSet(g, T)}
  <1>1. {} \in G
    BY SumOfNone
  <1>2. ASSUME NEW T \in SUBSET S, T # {}, T \ {Picked(T)} \in G PROVE T \in G
    <2>1. /\ Picked(T) \in T
          /\ SumFunctionOnSet(f, T) = f[Picked(T)] + SumFunctionOnSet(f, T \ {Picked(T)})
      BY <1>2, SumStep
    <2>2. SumFunctionOnSet(g, T) = g[Picked(T)] + SumFunctionOnSet(g, T \ {Picked(T)})
      BY <1>2, SumStep
    <2>3. SumFunctionOnSet(f, T) = SumFunctionOnSet(g, T)
      BY <1>2, <2>1, <2>2
    <2> QED
      BY <2>3
  <1> HIDE DEF G
  <1>3. SUBSET S \subseteq G
    BY <1>1, <1>2, PickingInduction
  <1> QED
    BY <1>3 DEF G

\* The sum of sums.
LEMMA SumsAdd ==
    ASSUME NEW f, NEW g, NEW h, NEW S, IsFiniteSet(S),
           \A x \in S : f[x] \in Int /\ g[x] \in Int /\ h[x] = f[x] + g[x]
    PROVE \A T \in SUBSET S : SumFunctionOnSet(h, T) = SumFunctionOnSet(f, T) + SumFunctionOnSet(g, T)
  <1> DEFINE G == {T \in SUBSET S : SumFunctionOnSet(h, T) = SumFunctionOnSet(f, T) + SumFunctionOnSet(g, T)}
  <1>1. {} \in G
    BY SumOfNone
  <1>2. ASSUME NEW T \in SUBSET S, T # {}, T \ {Picked(T)} \in G PROVE T \in G
    <2> DEFINE p == Picked(T)
               U == T \ {p}
    <2>1. p \in T /\ U \in SUBSET S /\ SumFunctionOnSet(f, T) = f[p] + SumFunctionOnSet(f, U)
      BY <1>2, SumStep
    <2>2. SumFunctionOnSet(g, T) = g[p] + SumFunctionOnSet(g, U)
      BY <1>2, SumStep
    <2>3. SumFunctionOnSet(h, T) = h[p] + SumFunctionOnSet(h, U)
      BY <1>2, SumStep
    <2>4. SumFunctionOnSet(f, U) \in Int /\ SumFunctionOnSet(g, U) \in Int
      BY <2>1, SumIsInt
    <2>5. f[p] \in Int /\ g[p] \in Int /\ h[p] = f[p] + g[p]
      BY <2>1
    <2>6. SumFunctionOnSet(h, U) = SumFunctionOnSet(f, U) + SumFunctionOnSet(g, U)
      BY <1>2
    <2>7. SumFunctionOnSet(h, T) = SumFunctionOnSet(f, T) + SumFunctionOnSet(g, T)
      BY <2>1, <2>2, <2>3, <2>4, <2>5, <2>6
    <2> QED
      BY <2>7
  <1> HIDE DEF G
  <1>3. SUBSET S \subseteq G
    BY <1>1, <1>2, PickingInduction
  <1> QED
    BY <1>3 DEF G

\* Any summand may be set apart.
LEMMA SumApart ==
    ASSUME NEW f, NEW S, IsFiniteSet(S), \A x \in S : f[x] \in Int
    PROVE \A T \in SUBSET S : \A x \in T :
             SumFunctionOnSet(f, T) = f[x] + SumFunctionOnSet(f, T \ {x})
  <1> DEFINE Apart(T, x) == SumFunctionOnSet(f, T) = f[x] + SumFunctionOnSet(f, T \ {x})
             B == {T \in SUBSET S : \E x \in T : ~Apart(T, x)}
  <1>1. B \subseteq SUBSET S
    OBVIOUS
  <1>2. ASSUME B # {} PROVE FALSE
    <2>1. PICK T \in B : \A U \in B : U \subseteq T => U = T
      <3> HIDE DEF B
      <3> QED BY <1>1, <1>2, LeastSubset
    <2>2. PICK x \in T : ~Apart(T, x)
      BY <2>1
    <2> DEFINE p == Picked(T)
               U == T \ {p}
               V == T \ {x}
               W == U \ {x}
    <2>3. T \in SUBSET S
      OBVIOUS
    <2>4. p \in T /\ SumFunctionOnSet(f, T) = f[p] + SumFunctionOnSet(f, U)
      BY <2>2, <2>3, SumStep
    <2>5. p # x
      BY <2>2, <2>4
    <2>6. U \in SUBSET S /\ U # T /\ U \subseteq T /\ x \in U
      BY <2>2, <2>3, <2>4, <2>5
    <2>7. V \in SUBSET S /\ V # T /\ V \subseteq T /\ p \in V
      BY <2>2, <2>3, <2>4, <2>5
    <2>8. SumFunctionOnSet(f, U) = f[x] + SumFunctionOnSet(f, W)
      BY <2>1, <2>6
    <2>9. Apart(V, p)
      <3>1. V \notin B
        BY <2>1, <2>7
      <3> QED
        BY <3>1, <2>7
    <2>10. V \ {p} = W
      OBVIOUS
    <2>11. SumFunctionOnSet(f, V) = f[p] + SumFunctionOnSet(f, W)
      BY <2>9, <2>10
    <2>12. f[p] \in Int /\ f[x] \in Int /\ SumFunctionOnSet(f, W) \in Int
      <3>1. W \in SUBSET S
        OBVIOUS
      <3> QED
        BY <3>1, <2>2, <2>3, <2>4, SumIsInt
    <2>13. SumFunctionOnSet(f, T) = f[x] + SumFunctionOnSet(f, V)
      <3> HIDE DEF p, U, V, W
      <3> QED
        BY <2>4, <2>8, <2>11, <2>12
    <2> QED
      BY <2>2, <2>13
  <1> QED
    BY <1>2

\* The sum over a set, in two parts.
LEMMA SumInParts ==
    ASSUME NEW f, NEW S, IsFiniteSet(S), \A x \in S : f[x] \in Int
    PROVE \A T \in SUBSET S :
             SumFunctionOnSet(f, S) = SumFunctionOnSet(f, T) + SumFunctionOnSet(f, S \ T)
  <1> DEFINE G == {T \in SUBSET S :
                SumFunctionOnSet(f, S) = SumFunctionOnSet(f, T) + SumFunctionOnSet(f, S \ T)}
  <1>1. {} \in G
    <2>1. SumFunctionOnSet(f, S) \in Int /\ S \ {} = S
      BY SumIsInt
    <2> QED
      BY <2>1, SumOfNone
  <1>2. ASSUME NEW T \in SUBSET S, T # {}, T \ {Picked(T)} \in G PROVE T \in G
    <2> DEFINE p == Picked(T)
               U == T \ {p}
               V == S \ T
               W == S \ U
    <2>1. p \in T /\ U \in SUBSET S /\ SumFunctionOnSet(f, T) = f[p] + SumFunctionOnSet(f, U)
      BY <1>2, SumStep
    <2>2. W \in SUBSET S /\ p \in W /\ W \ {p} = V
      BY <2>1
    <2>3. SumFunctionOnSet(f, W) = f[p] + SumFunctionOnSet(f, V)
      BY <2>2, SumApart
    <2>4. SumFunctionOnSet(f, S) = SumFunctionOnSet(f, U) + SumFunctionOnSet(f, W)
      BY <1>2
    <2>5. f[p] \in Int /\ SumFunctionOnSet(f, U) \in Int /\ SumFunctionOnSet(f, V) \in Int
      <3>1. V \in SUBSET S
        OBVIOUS
      <3> QED
        BY <3>1, <2>1, SumIsInt
    <2>6. SumFunctionOnSet(f, S) = SumFunctionOnSet(f, T) + SumFunctionOnSet(f, V)
      <3> HIDE DEF p, U, V, W
      <3> QED
        BY <2>1, <2>3, <2>4, <2>5
    <2> QED
      BY <2>6
  <1> HIDE DEF G
  <1>3. SUBSET S \subseteq G
    BY <1>1, <1>2, PickingInduction
  <1> QED
    BY <1>3 DEF G

\* What is left out of natural numbers makes their sum no larger.
LEMMA SumOfFewer ==
    ASSUME NEW f, NEW S, IsFiniteSet(S), \A x \in S : f[x] \in Nat
    PROVE \A T \in SUBSET S : SumFunctionOnSet(f, T) <= SumFunctionOnSet(f, S)
  <1>1. TAKE T \in SUBSET S
  <1>2. SumFunctionOnSet(f, S) = SumFunctionOnSet(f, T) + SumFunctionOnSet(f, S \ T)
    BY SumInParts
  <1>3. S \ T \in SUBSET S
    OBVIOUS
  <1>4. SumFunctionOnSet(f, T) \in Nat /\ SumFunctionOnSet(f, S \ T) \in Nat
    BY <1>3, SumIsNat
  <1> QED
    BY <1>2, <1>4

\* One summand changes.
LEMMA SumChanges ==
    ASSUME NEW f, NEW g, NEW S, IsFiniteSet(S),
           \A x \in S : f[x] \in Int /\ g[x] \in Int,
           NEW x \in S, \A y \in S : y # x => g[y] = f[y]
    PROVE SumFunctionOnSet(g, S) = SumFunctionOnSet(f, S) - f[x] + g[x]
  <1> DEFINE T == S \ {x}
  <1>1. IsFiniteSet(T) /\ T \in SUBSET S /\ S \in SUBSET S
    BY FS_Subset
  <1>2. SumFunctionOnSet(f, T) = SumFunctionOnSet(g, T)
    <2>1. \A y \in T : f[y] = g[y] /\ T \in SUBSET T
      OBVIOUS
    <2> HIDE DEF T
    <2> QED
      BY <1>1, <2>1, SumsOfSame
  <1>3. SumFunctionOnSet(f, S) = f[x] + SumFunctionOnSet(f, T)
    BY <1>1, SumApart
  <1>4. SumFunctionOnSet(g, S) = g[x] + SumFunctionOnSet(g, T)
    BY <1>1, SumApart
  <1>5. SumFunctionOnSet(f, T) \in Int /\ f[x] \in Int /\ g[x] \in Int
    BY <1>1, SumIsInt
  <1> HIDE DEF T
  <1> QED
    BY <1>2, <1>3, <1>4, <1>5

\* A sum of natural numbers is 0 just when they all are.
LEMMA SumOfZeros ==
    ASSUME NEW f, NEW S, IsFiniteSet(S), \A x \in S : f[x] \in Nat
    PROVE SumFunctionOnSet(f, S) = 0 <=> \A x \in S : f[x] = 0
  <1>1. S \in SUBSET S /\ SumFunctionOnSet(f, S) \in Int
    <2>1. S \in SUBSET S /\ \A x \in S : f[x] \in Int
      OBVIOUS
    <2> QED
      BY <2>1, SumIsInt
  <1>2. ASSUME \A x \in S : f[x] = 0 PROVE SumFunctionOnSet(f, S) = 0
    <2>1. SumFunctionOnSet(f, S) = SumFunctionOnSet(f, S) + SumFunctionOnSet(f, S)
      BY <1>1, <1>2, SumsAdd
    <2> DEFINE s == SumFunctionOnSet(f, S)
    <2>2. s \in Int /\ s = s + s
      BY <1>1, <2>1
    <2> HIDE DEF s
    <2>3. s = 0
      BY <2>2
    <2> QED
      BY <2>3 DEF s
  <1>3. ASSUME SumFunctionOnSet(f, S) = 0, NEW x \in S PROVE f[x] = 0
    <2>1. SumFunctionOnSet(f, S) = f[x] + SumFunctionOnSet(f, S \ {x})
      BY <1>1, SumApart
    <2>2. S \ {x} \in SUBSET S
      OBVIOUS
    <2>3. SumFunctionOnSet(f, S \ {x}) \in Nat
      BY <2>2, SumIsNat
    <2> QED
      BY <1>3, <2>1, <2>3
  <1> QED
    BY <1>2, <1>3

\* What is left out does not count if it is 0.
LEMMA SumWithoutZeros ==
    ASSUME NEW f, NEW S, IsFiniteSet(S), \A x \in S : f[x] \in Nat,
           NEW T \in SUBSET S, \A x \in S \ T : f[x] = 0
    PROVE SumFunctionOnSet(f, S) = SumFunctionOnSet(f, T)
  <1> DEFINE U == S \ T
  <1>1. IsFiniteSet(U) /\ U \in SUBSET S /\ \A x \in U : f[x] \in Nat /\ f[x] = 0
    BY FS_Difference
  <1>2. SumFunctionOnSet(f, S) = SumFunctionOnSet(f, T) + SumFunctionOnSet(f, U)
    BY SumInParts
  <1>3. SumFunctionOnSet(f, T) \in Nat
    BY SumIsNat
  <1> HIDE DEF U
  <1>4. SumFunctionOnSet(f, U) = 0
    BY <1>1, SumOfZeros
  <1> QED
    BY <1>2, <1>3, <1>4

----------------------------------------------------------------------------
(* What is stored, in numbers. *)

\* What the team's objects weigh, and its parts but for those left out.
Total == SumFunction([n \in Namespace |-> Weight(n)])
Parts(leftOut) == SumFunctionOnSet(part, Namespace \ leftOut)

\* The constants, as the lemmas use them.
LEMMA Sizes ==
    /\ Size \cup {0} \subseteq Nat
    /\ \A s \in Size : s # 0
    /\ IsFiniteSet(Namespace)
    /\ IsFiniteSet(Key)
    /\ None \notin Namespace /\ None \notin Key /\ None \notin Int
  BY QuotaAssumption

\* Objects, and weights, are natural numbers.
LEMMA WeightsAreNat ==
    ASSUME objects \in [Namespace -> [Key -> Size \cup {0}]], NEW n \in Namespace
    PROVE /\ Weight(n) = SumFunctionOnSet(objects[n], Key)
          /\ \A k \in Key : objects[n][k] \in Nat
          /\ Weight(n) \in Nat
          /\ Weight(n) = 0 <=> \A k \in Key : objects[n][k] = 0
  <1>1. DOMAIN objects[n] = Key /\ \A k \in Key : objects[n][k] \in Nat
    BY Sizes
  <1>2. Weight(n) = SumFunctionOnSet(objects[n], Key)
    BY <1>1 DEF Weight, SumFunction
  <1>3. SumFunctionOnSet(objects[n], Key) \in Nat
    BY <1>1, Sizes, SumIsNat
  <1>4. SumFunctionOnSet(objects[n], Key) = 0 <=> \A k \in Key : objects[n][k] = 0
    BY <1>1, Sizes, SumOfZeros
  <1> QED
    BY <1>1, <1>2, <1>3, <1>4

\* What is stored is a number.
LEMMA TotalIsNat ==
    ASSUME objects \in [Namespace -> [Key -> Size \cup {0}]]
    PROVE /\ Total = SumFunctionOnSet([n \in Namespace |-> Weight(n)], Namespace)
          /\ Total \in Nat
  <1> DEFINE W == [n \in Namespace |-> Weight(n)]
  <1>1. \A n \in Namespace : W[n] \in Nat
    BY WeightsAreNat
  <1>2. SumFunctionOnSet(W, Namespace) \in Nat
    <2> HIDE DEF W
    <2> QED BY <1>1, Sizes, SumIsNat
  <1> QED
    BY <1>2 DEF Total, SumFunction

\* So are the parts.
LEMMA PartsAreNat ==
    ASSUME part \in [Namespace -> Size \cup {0}]
    PROVE /\ \A n \in Namespace : part[n] \in Nat
          /\ \A S \in SUBSET Namespace : SumFunctionOnSet(part, S) \in Nat
          /\ \A L : Parts(L) \in Nat
  <1>1. \A n \in Namespace : part[n] \in Nat
    BY Sizes
  <1>2. \A S \in SUBSET Namespace : SumFunctionOnSet(part, S) \in Nat
    BY <1>1, Sizes, SumIsNat
  <1>3. \A L : Namespace \ L \in SUBSET Namespace
    OBVIOUS
  <1> QED
    BY <1>1, <1>2, <1>3 DEF Parts

\* One object changes, and with it its namespace and the total.
LEMMA ObjectChanges ==
    ASSUME objects \in [Namespace -> [Key -> Size \cup {0}]],
           NEW n \in Namespace, NEW k \in Key, NEW s \in Size \cup {0},
           objects' = [objects EXCEPT ![n][k] = s]
    PROVE /\ objects' \in [Namespace -> [Key -> Size \cup {0}]]
          /\ Weight(n)' = Weight(n) + (s - objects[n][k])
          /\ \A m \in Namespace \ {n} : Weight(m)' = Weight(m)
          /\ Total' = Total + (s - objects[n][k])
  <1>1. objects' \in [Namespace -> [Key -> Size \cup {0}]]
    OBVIOUS
  <1>2. /\ \A j \in Key : objects[n][j] \in Int /\ objects'[n][j] \in Int
        /\ \A j \in Key : j # k => objects'[n][j] = objects[n][j]
        /\ objects'[n][k] = s
    BY <1>1, Sizes
  <1>3. SumFunctionOnSet(objects'[n], Key) = SumFunctionOnSet(objects[n], Key) - objects[n][k] + objects'[n][k]
    <2> DEFINE f == objects[n]
               g == objects'[n]
    <2>1. \A j \in Key : f[j] \in Int /\ g[j] \in Int
      BY <1>2
    <2>2. \A j \in Key : j # k => g[j] = f[j]
      BY <1>2
    <2> HIDE DEF f, g
    <2>3. SumFunctionOnSet(g, Key) = SumFunctionOnSet(f, Key) - f[k] + g[k]
      BY <2>1, <2>2, Sizes, SumChanges
    <2> QED
      BY <2>3 DEF f, g
  <1>4. Weight(n) = SumFunctionOnSet(objects[n], Key) /\ Weight(n) \in Nat
    BY WeightsAreNat
  <1>5. Weight(n)' = SumFunctionOnSet(objects'[n], Key)
    <2>1. DOMAIN objects'[n] = Key
      BY <1>1
    <2> QED
      BY <2>1 DEF Weight, SumFunction
  <1>6. Weight(n)' = Weight(n) + (s - objects[n][k])
    BY <1>2, <1>3, <1>4, <1>5
  <1>7. ASSUME NEW m \in Namespace \ {n} PROVE Weight(m)' = Weight(m)
    BY DEF Weight
  <1> DEFINE V == [m \in Namespace |-> Weight(m)]
             W == [m \in Namespace |-> Weight(m)']
  <1>8. \A m \in Namespace : V[m] \in Nat
    BY WeightsAreNat
  <1>9. W[n] = V[n] + (s - objects[n][k]) /\ \A m \in Namespace : m # n => W[m] = V[m]
    BY <1>6, <1>7
  <1>10. \A m \in Namespace : V[m] \in Int /\ W[m] \in Int
    <2> HIDE DEF V, W
    <2> QED BY <1>2, <1>8, <1>9
  <1>11. SumFunctionOnSet(W, Namespace) = SumFunctionOnSet(V, Namespace) - V[n] + W[n]
    <2> HIDE DEF V, W
    <2> QED BY <1>9, <1>10, Sizes, SumChanges
  <1>12. SumFunctionOnSet(V, Namespace) = Total /\ Total \in Nat
    BY TotalIsNat
  <1>13. SumFunctionOnSet(W, Namespace) = Total'
    BY DEF Total, SumFunction
  <1>14. V[n] \in Nat /\ s - objects[n][k] \in Int
    BY <1>2, <1>8
  <1>15. Total' = Total + (s - objects[n][k])
    <2> HIDE DEF V, W
    <2> QED BY <1>9, <1>11, <1>12, <1>13, <1>14
  <1> QED
    BY <1>1, <1>6, <1>7, <1>15

\* One part changes: it counts where it is not left out.
LEMMA PartChanges ==
    ASSUME part \in [Namespace -> Size \cup {0}],
           NEW n \in Namespace, NEW s \in Size \cup {0}, NEW leftOut,
           part' = [part EXCEPT ![n] = s]
    PROVE Parts(leftOut)' = Parts(leftOut) + (IF n \in leftOut THEN 0 ELSE s - part[n])
  <1> DEFINE S == Namespace \ leftOut
             p == part'
  <1>1. /\ \A m \in S : part[m] \in Int /\ p[m] \in Int
        /\ \A m \in S : m # n => p[m] = part[m]
        /\ p[n] = s /\ part[n] \in Int /\ s \in Int
    BY Sizes
  <1>2. IsFiniteSet(S)
    BY Sizes, FS_Difference
  <1>3. Parts(leftOut) = SumFunctionOnSet(part, S) /\ Parts(leftOut)' = SumFunctionOnSet(p, S)
    BY DEF Parts
  <1>4. Parts(leftOut) \in Nat
    BY PartsAreNat
  <1>5. CASE n \in S
    <2>1. SumFunctionOnSet(p, S) = SumFunctionOnSet(part, S) - part[n] + p[n]
      <3> HIDE DEF p, S
      <3> QED BY <1>1, <1>2, <1>5, SumChanges
    <2> QED
      BY <1>1, <1>3, <1>4, <1>5, <2>1
  <1>6. CASE n \notin S
    <2>1. \A m \in S : part[m] = p[m]
      BY <1>1, <1>6
    <2>2. S \in SUBSET S
      OBVIOUS
    <2>3. SumFunctionOnSet(part, S) = SumFunctionOnSet(p, S)
      <3> HIDE DEF p, S
      <3> QED BY <1>2, <2>1, <2>2, SumsOfSame
    <2> QED
      BY <1>3, <1>4, <1>6, <2>3
  <1> QED
    BY <1>5, <1>6

\* Leaving out more makes the sum no larger, and one more by its part.
LEMMA PartsLeftOut ==
    ASSUME part \in [Namespace -> Size \cup {0}], NEW leftOut
    PROVE /\ \A more : leftOut \subseteq more => Parts(more) <= Parts(leftOut)
          /\ \A n \in Namespace \ leftOut : Parts(leftOut) = part[n] + Parts(leftOut \cup {n})
  <1>1. \A n \in Namespace : part[n] \in Nat
    BY PartsAreNat
  <1>2. ASSUME NEW more, leftOut \subseteq more PROVE Parts(more) <= Parts(leftOut)
    <2> DEFINE S == Namespace \ leftOut
               T == Namespace \ more
    <2>1. IsFiniteSet(S) /\ T \in SUBSET S /\ \A m \in S : part[m] \in Nat
      BY <1>1, <1>2, Sizes, FS_Difference
    <2>2. SumFunctionOnSet(part, T) <= SumFunctionOnSet(part, S)
      <3> HIDE DEF S, T
      <3> QED BY <2>1, SumOfFewer
    <2> QED
      BY <2>2 DEF Parts
  <1>3. ASSUME NEW n \in Namespace \ leftOut
        PROVE Parts(leftOut) = part[n] + Parts(leftOut \cup {n})
    <2> DEFINE S == Namespace \ leftOut
    <2>1. IsFiniteSet(Namespace) /\ S \in SUBSET Namespace /\ n \in S /\ \A m \in Namespace : part[m] \in Int
      BY <1>1, Sizes
    <2>2. SumFunctionOnSet(part, S) = part[n] + SumFunctionOnSet(part, S \ {n})
      <3> HIDE DEF S
      <3> QED BY <2>1, SumApart
    <2>3. S \ {n} = Namespace \ (leftOut \cup {n})
      OBVIOUS
    <2> QED
      BY <2>2, <2>3 DEF Parts
  <1> QED
    BY <1>2, <1>3

----------------------------------------------------------------------------
(* What is counted, in numbers. *)

\* The deltas' bytes, by namespace.
LEMMA BytesAreInt ==
    ASSUME NEW ds, ds \subseteq Delta, IsFiniteSet(ds), NEW n
    PROVE Bytes(ds, n) \in Int
  <1> DEFINE f == [d \in ds |-> d.bytes]
             S == {d \in ds : d.ns = n}
  <1>1. \A d \in ds : f[d] \in Int
    BY DEF Delta
  <1>2. S \in SUBSET ds
    OBVIOUS
  <1>3. SumFunctionOnSet(f, S) \in Int
    <2> HIDE DEF f, S
    <2> QED BY <1>1, <1>2, SumIsInt
  <1> QED
    BY <1>3 DEF Bytes

\* A delta is added.
LEMMA BytesGrow ==
    ASSUME NEW ds, ds \subseteq Delta, IsFiniteSet(ds), NEW d \in Delta, d \notin ds, NEW n
    PROVE Bytes(ds \cup {d}, n) = Bytes(ds, n) + (IF d.ns = n THEN d.bytes ELSE 0)
  <1> DEFINE es == ds \cup {d}
             f == [x \in ds |-> x.bytes]
             g == [x \in es |-> x.bytes]
             S == {x \in ds : x.ns = n}
             T == {x \in es : x.ns = n}
  <1>1. IsFiniteSet(es) /\ \A x \in es : g[x] \in Int
    BY FS_AddElement DEF Delta
  <1>2. IsFiniteSet(S) /\ S \in SUBSET S /\ \A x \in S : g[x] = f[x]
    BY FS_Subset
  <1>3. SumFunctionOnSet(g, S) = SumFunctionOnSet(f, S)
    <2> HIDE DEF f, g, S
    <2> QED BY <1>2, SumsOfSame
  <1>4. Bytes(ds, n) = SumFunctionOnSet(f, S) /\ Bytes(es, n) = SumFunctionOnSet(g, T)
    BY DEF Bytes
  <1>5. Bytes(ds, n) \in Int
    BY BytesAreInt
  <1>6. CASE d.ns = n
    <2>1. T \in SUBSET es /\ d \in T /\ T \ {d} = S /\ g[d] = d.bytes
      BY <1>6
    <2>2. SumFunctionOnSet(g, T) = g[d] + SumFunctionOnSet(g, T \ {d})
      <3> HIDE DEF es, g, T
      <3> QED BY <1>1, <2>1, SumApart
    <2>3. d.bytes \in Int
      BY DEF Delta
    <2> HIDE DEF es, f, g, S, T
    <2>4. SumFunctionOnSet(g, T) = d.bytes + SumFunctionOnSet(f, S)
      BY <1>3, <2>1, <2>2
    <2>5. Bytes(es, n) = Bytes(ds, n) + d.bytes
      BY <1>4, <1>5, <2>3, <2>4
    <2> QED
      BY <1>6, <2>5 DEF es
  <1>7. CASE d.ns # n
    <2>1. T = S
      BY <1>7
    <2> HIDE DEF f, g, S, T
    <2> QED
      BY <1>3, <1>4, <1>5, <1>7, <2>1
  <1> QED
    BY <1>6, <1>7

\* Some of the deltas are taken away.
LEMMA BytesInParts ==
    ASSUME NEW ds, ds \subseteq Delta, IsFiniteSet(ds), NEW es \in SUBSET ds, NEW n
    PROVE Bytes(ds, n) = Bytes(es, n) + Bytes(ds \ es, n)
  <1> DEFINE fs == ds \ es
             f == [x \in ds |-> x.bytes]
             g == [x \in es |-> x.bytes]
             h == [x \in fs |-> x.bytes]
             S == {x \in ds : x.ns = n}
             T == {x \in es : x.ns = n}
             U == {x \in fs : x.ns = n}
  <1>1. IsFiniteSet(S) /\ \A x \in S : f[x] \in Int
    BY FS_Subset DEF Delta
  <1>2. T \in SUBSET S /\ U = S \ T
    OBVIOUS
  <1>3. SumFunctionOnSet(f, S) = SumFunctionOnSet(f, T) + SumFunctionOnSet(f, S \ T)
    <2> HIDE DEF f, S, T
    <2> QED BY <1>1, <1>2, SumInParts
  <1>4. IsFiniteSet(T) /\ IsFiniteSet(U)
    BY FS_Subset
  <1>5. T \in SUBSET T /\ \A x \in T : f[x] = g[x]
    OBVIOUS
  <1>6. SumFunctionOnSet(f, T) = SumFunctionOnSet(g, T)
    <2> HIDE DEF f, g, T
    <2> QED BY <1>4, <1>5, SumsOfSame
  <1>7. U \in SUBSET U /\ \A x \in U : f[x] = h[x]
    OBVIOUS
  <1>8. SumFunctionOnSet(f, U) = SumFunctionOnSet(h, U)
    <2> HIDE DEF f, h, U
    <2> QED BY <1>4, <1>7, SumsOfSame
  <1>9. /\ Bytes(ds, n) = SumFunctionOnSet(f, S)
        /\ Bytes(es, n) = SumFunctionOnSet(g, T)
        /\ Bytes(fs, n) = SumFunctionOnSet(h, U)
    BY DEF Bytes
  <1> HIDE DEF f, g, h, S, T, U
  <1> QED
    BY <1>2, <1>3, <1>6, <1>8, <1>9

\* No deltas say nothing.
LEMMA BytesOfNone ==
    ASSUME NEW ds, NEW n, \A d \in ds : d.ns # n
    PROVE Bytes(ds, n) = 0
  <1>1. {d \in ds : d.ns = n} = {}
    OBVIOUS
  <1> QED
    BY <1>1, SumOfNone DEF Bytes

----------------------------------------------------------------------------
(* What the writers are told, in numbers. *)

\* EnforceQuota sums what is stored, wherever it is counted.
LEMMA TenantUsageIsStored ==
    TypeOK /\ IsFiniteSet(deltas) /\ UsageIsExact =>
        \A leftOut : TenantUsage(leftOut) = Total + Parts(leftOut)
  <1> SUFFICES ASSUME TypeOK, IsFiniteSet(deltas), UsageIsExact, NEW leftOut
               PROVE TenantUsage(leftOut) = Total + Parts(leftOut)
    OBVIOUS
  <1> DEFINE u == [n \in open |-> Counter(n) + Bytes(deltas, n)]
             v == [n \in Namespace |-> Weight(n)]
             S == Namespace \ leftOut
             T == open \ leftOut
  <1>1. open \subseteq Namespace /\ IsFiniteSet(open) /\ open \in SUBSET open
    BY Sizes, FS_Subset DEF TypeOK
  <1>2. \A n \in open : u[n] = v[n]
    BY <1>1 DEF UsageIsExact
  <1>3. /\ \A n \in Namespace : v[n] \in Nat
        /\ \A n \in Namespace \ open : v[n] = 0
    BY WeightsAreNat DEF TypeOK
  <1>4. SumFunctionOnSet(u, open) = SumFunctionOnSet(v, open)
    <2> HIDE DEF u, v
    <2> QED BY <1>1, <1>2, SumsOfSame
  <1>5. SumFunctionOnSet(v, Namespace) = SumFunctionOnSet(v, open)
    <2> HIDE DEF u, v
    <2> QED BY <1>1, <1>3, Sizes, SumWithoutZeros
  <1>6. /\ IsFiniteSet(S) /\ T \in SUBSET S
        /\ \A n \in S : part[n] \in Nat
        /\ \A n \in S \ T : part[n] = 0
    BY <1>1, Sizes, FS_Difference, PartsAreNat DEF TypeOK
  <1>7. SumFunctionOnSet(part, S) = SumFunctionOnSet(part, T)
    <2> HIDE DEF S, T
    <2> QED BY <1>6, SumWithoutZeros
  <1>8. TenantUsage(leftOut) = SumFunctionOnSet(u, open) + SumFunctionOnSet(part, T)
    BY DEF TenantUsage, SumFunction
  <1>9. Total = SumFunctionOnSet(v, Namespace) /\ Parts(leftOut) = SumFunctionOnSet(part, S)
    BY TotalIsNat DEF TypeOK, Parts
  <1> HIDE DEF u, v, S, T
  <1> QED
    BY <1>4, <1>5, <1>7, <1>8, <1>9

\* What a writer is promised.
Promised(r) == Total + Parts(LeftOut(r)) + Growth(r) <= Limit

\* The invariant, in the numbers above.
NInv ==
    /\ TypeOK
    /\ IsFiniteSet(deltas)
    /\ WritersHaveSubjects
    /\ OneHoldsTheTeam
    /\ FoldsKeepTheirDeltas
    /\ DeletedIsEmpty
    /\ UsageIsExact
    /\ \A w \in Writer : writer[w].pc = "commit" => Promised(writer[w])
    /\ Total + Parts(completed) <= Limit

\* The invariant, in numbers.
LEMMA InNumbers == IInv <=> NInv
  <1>1. ASSUME TypeOK, IsFiniteSet(deltas), UsageIsExact, NEW w \in Writer
        PROVE Fits(writer[w]) <=> Promised(writer[w])
    <2>1. TenantUsage(LeftOut(writer[w])) = Total + Parts(LeftOut(writer[w]))
      BY <1>1, TenantUsageIsStored
    <2> QED
      BY <2>1 DEF Fits, Promised
  <1>2. WithinQuota <=> Total + Parts(completed) <= Limit
    BY DEF WithinQuota, Total, Parts
  <1> QED
    BY <1>1, <1>2 DEF IInv, NInv, PromisesHold

\* What a writer changes, and whose part its write does not count.
LEMMA WritersChange ==
    ASSUME TypeOK, WritersHaveSubjects, NEW w \in Writer, writer[w].pc # "idle"
    PROVE /\ writer[w].ns \in open /\ writer[w].ns \in Namespace /\ writer[w].ns # None
          /\ writer[w].op \in {"put", "complete", "part"}
          /\ writer[w].size \in Size /\ writer[w].size \in Nat
          /\ writer[w].op # "part" =>
                /\ writer[w].key \in Key
                /\ Growth(writer[w]) = writer[w].size - objects[writer[w].ns][writer[w].key]
          /\ writer[w].op = "part" =>
                /\ LeftOut(writer[w]) = {}
                /\ Growth(writer[w]) = writer[w].size - part[writer[w].ns]
          /\ LeftOut(writer[w]) \subseteq {writer[w].ns}
          /\ Growth(writer[w]) \in Int
  <1> DEFINE r == writer[w]
  <1>1. /\ r.ns \in open /\ r.ns \in Namespace /\ r.ns # None
        /\ r.op \in {"put", "complete", "part"}
        /\ r.size \in Size /\ r.size \in Nat
        /\ r.op # "part" => r.key \in Key
    BY Sizes DEF TypeOK, WritersHaveSubjects
  <1>2. /\ r.op # "part" => objects[r.ns][r.key] \in Nat
        /\ part[r.ns] \in Nat
    BY <1>1, Sizes DEF TypeOK
  <1> HIDE DEF r
  <1>3. /\ r.op # "part" => Growth(r) = r.size - objects[r.ns][r.key]
        /\ r.op = "part" => LeftOut(r) = {} /\ Growth(r) = r.size - part[r.ns]
        /\ LeftOut(r) \subseteq {r.ns}
    BY DEF Growth, LeftOut
  <1>4. Growth(r) \in Int
    BY <1>1, <1>2, <1>3
  <1> QED
    BY <1>1, <1>3, <1>4 DEF r

----------------------------------------------------------------------------
(* The invariant, one action at a time. *)

\* Nothing is stored to begin with.
LEMMA Initially == Init => NInv
  <1> SUFFICES ASSUME Init PROVE NInv
    OBVIOUS
  <1>1. /\ objects \in [Namespace -> [Key -> Size \cup {0}]]
        /\ part \in [Namespace -> Size \cup {0}]
        /\ \A n \in Namespace : part[n] = 0 /\ \A k \in Key : objects[n][k] = 0
    BY DEF Init
  <1>2. \A n \in Namespace : Weight(n) = 0
    BY <1>1, WeightsAreNat
  <1>3. Total = 0
    <2> DEFINE v == [n \in Namespace |-> Weight(n)]
    <2>1. \A n \in Namespace : v[n] \in Nat /\ v[n] = 0
      BY <1>2
    <2>2. SumFunctionOnSet(v, Namespace) = 0
      <3> HIDE DEF v
      <3> QED BY <2>1, Sizes, SumOfZeros
    <2> QED
      BY <1>1, <2>2, TotalIsNat
  <1>4. Parts({}) = 0
    <2>1. SumFunctionOnSet(part, Namespace) = 0
      BY <1>1, Sizes, SumOfZeros
    <2> QED
      BY <2>1 DEF Parts
  <1>5. Total + Parts(completed) <= Limit
    BY <1>3, <1>4, QuotaAssumption DEF Init
  <1>6. TypeOK
    <2>1. writer \in [Writer -> [pc : {"idle", "lockTeam", "enforce", "commit"},
                              op : {"put", "complete", "part", None},
                              ns : Namespace \cup {None}, key : Key \cup {None},
                              size : Size \cup {0}]]
      BY DEF Init, IdleWriter
    <2>2. folder \in [Folder -> [taken : SUBSET Delta, counted : SUBSET Namespace]]
      BY DEF Init, IdleFolder
    <2> QED
      BY <1>1, <1>2, <2>1, <2>2 DEF Init, TypeOK
  <1>7. IsFiniteSet(deltas)
    BY FS_EmptySet DEF Init
  <1>8. WritersHaveSubjects /\ OneHoldsTheTeam /\ DeletedIsEmpty /\ UsageIsExact
    BY DEF Init, WritersHaveSubjects, OneHoldsTheTeam, TeamHolders, DeletedIsEmpty, UsageIsExact,
           IdleWriter
  <1>9. FoldsKeepTheirDeltas
    BY DEF Init, FoldsKeepTheirDeltas, IdleFolder
  <1>10. \A w \in Writer : writer[w].pc # "commit"
    BY DEF Init, IdleWriter
  <1> QED
    BY <1>5, <1>6, <1>7, <1>8, <1>9, <1>10 DEF NInv

\* One writer takes a step, and what is stored and counted stays.
LEMMA OneWriterMoves ==
    ASSUME NInv, NEW w \in Writer, NEW r,
           Becomes(w, r), UNCHANGED <<open, deleting, stored, counters, folder>>,
           r \in [pc : {"idle", "lockTeam", "enforce", "commit"},
                  op : {"put", "complete", "part", None},
                  ns : Namespace \cup {None}, key : Key \cup {None},
                  size : Size \cup {0}],
           IF r.pc = "idle" THEN r = IdleWriter
           ELSE /\ r.ns \in open
                /\ r.op \in {"put", "complete", "part"}
                /\ r.size \in Size
                /\ r.op # "part" => r.key \in Key /\ r.ns # deleting,
           r.pc \in {"enforce", "commit"} => TeamHolders \subseteq {w},
           r.pc = "commit" => Promised(r)
    PROVE NInv'
  <1>1. /\ writer \in [Writer -> [pc : {"idle", "lockTeam", "enforce", "commit"},
                              op : {"put", "complete", "part", None},
                              ns : Namespace \cup {None}, key : Key \cup {None},
                              size : Size \cup {0}]]
        /\ writer' = [writer EXCEPT ![w] = r]
    BY DEF NInv, TypeOK, Becomes
  <1>2. writer'[w] = r /\ \A v \in Writer \ {w} : writer'[v] = writer[v]
    BY <1>1
  <1>3. /\ open' = open /\ deleting' = deleting /\ objects' = objects /\ part' = part
        /\ completed' = completed /\ usage' = usage /\ deltas' = deltas /\ folder' = folder
    BY DEF stored, counters
  <1>4. Total' = Total /\ (\A n \in Namespace : Weight(n)' = Weight(n))
    BY <1>3 DEF Total, Weight
  <1>5. \A v \in Writer : Promised(writer[v])' <=> Promised(writer'[v])
    BY <1>3, <1>4 DEF Promised, Parts, LeftOut, Growth
  <1>6. TypeOK'
    <2>1. writer' \in [Writer -> [pc : {"idle", "lockTeam", "enforce", "commit"},
                              op : {"put", "complete", "part", None},
                              ns : Namespace \cup {None}, key : Key \cup {None},
                              size : Size \cup {0}]]
      BY <1>1
    <2> QED
      BY <1>3, <1>4, <2>1 DEF NInv, TypeOK
  <1>7. WritersHaveSubjects'
    BY <1>2, <1>3 DEF NInv, WritersHaveSubjects
  <1>8. OneHoldsTheTeam'
    BY <1>2 DEF NInv, OneHoldsTheTeam, TeamHolders
  <1>9. DeletedIsEmpty'
    <2> SUFFICES ASSUME deleting # None PROVE Weight(deleting)' = 0 /\ Writing(deleting)' = {}
      BY <1>3 DEF DeletedIsEmpty
    <2>1. deleting \in Namespace /\ Weight(deleting) = 0 /\ Writing(deleting) = {}
      BY DEF NInv, TypeOK, DeletedIsEmpty
    <2>2. ~(r.ns = deleting /\ r.op # "part")
      BY <2>1, Sizes DEF IdleWriter
    <2>3. Writing(deleting)' = {}
      BY <1>2, <1>3, <2>1, <2>2 DEF Writing
    <2> QED
      BY <1>3, <1>4, <2>1, <2>3
  <1>10. FoldsKeepTheirDeltas' /\ IsFiniteSet(deltas)'
    BY <1>3 DEF NInv, FoldsKeepTheirDeltas
  <1>11. UsageIsExact'
    <2>1. open \subseteq Namespace
      BY DEF NInv, TypeOK
    <2> QED
      BY <1>3, <1>4, <2>1 DEF NInv, UsageIsExact, Counter
  <1>12. (\A v \in Writer : writer[v].pc = "commit" => Promised(writer[v]))'
    <2>1. ASSUME NEW v \in Writer, writer'[v].pc = "commit" PROVE Promised(writer'[v])
      BY <1>2, <2>1 DEF NInv
    <2> QED
      BY <1>5, <2>1
  <1>13. (Total + Parts(completed))' <= Limit
    BY <1>3, <1>4 DEF NInv, Parts
  <1> QED
    BY <1>6, <1>7, <1>8, <1>9, <1>10, <1>11, <1>12, <1>13 DEF NInv

\* A request past its write keeps out of a namespace being deleted.
LEMMA WritersKeepOut ==
    ASSUME NInv, NEW w \in Writer, writer[w].pc # "idle", writer[w].op # "part"
    PROVE writer[w].ns # deleting
  <1>1. writer[w].ns # None
    BY WritersChange DEF NInv
  <1>2. w \in Writing(writer[w].ns)
    BY DEF Writing
  <1> QED
    BY <1>1, <1>2 DEF NInv, DeletedIsEmpty

\* A lemma for each step.
LEMMA WriteObjectKeeps ==
    ASSUME NInv, NEW w \in Writer, NEW op \in {"put", "complete"}, NEW n \in Namespace,
           NEW k \in Key, NEW s \in Size, WriteObject(w, op, n, k, s)
    PROVE NInv'
  <1> DEFINE r == [pc |-> "lockTeam", op |-> op, ns |-> n, key |-> k, size |-> s]
  <1>1. /\ Becomes(w, r) /\ UNCHANGED <<open, deleting, stored, counters, folder>>
        /\ n \in open /\ n # deleting
    BY DEF WriteObject
  <1>2. /\ r \in [pc : {"idle", "lockTeam", "enforce", "commit"},
                  op : {"put", "complete", "part", None},
                  ns : Namespace \cup {None}, key : Key \cup {None},
                  size : Size \cup {0}]
        /\ r.pc = "lockTeam" /\ r.op \in {"put", "complete", "part"} /\ r.ns \in open /\ r.ns # deleting
        /\ r.size \in Size /\ r.key \in Key
    BY <1>1
  <1> HIDE DEF r
  <1> QED
    BY <1>1, <1>2, OneWriterMoves

LEMMA WritePartKeeps ==
    ASSUME NInv, NEW w \in Writer, NEW n \in Namespace, NEW s \in Size, WritePart(w, n, s)
    PROVE NInv'
  <1> DEFINE r == [pc |-> "lockTeam", op |-> "part", ns |-> n, key |-> None, size |-> s]
  <1>1. Becomes(w, r) /\ UNCHANGED <<open, deleting, stored, counters, folder>> /\ n \in open
    BY DEF WritePart
  <1>2. /\ r \in [pc : {"idle", "lockTeam", "enforce", "commit"},
                  op : {"put", "complete", "part", None},
                  ns : Namespace \cup {None}, key : Key \cup {None},
                  size : Size \cup {0}]
        /\ r.pc = "lockTeam" /\ r.op = "part" /\ r.ns \in open /\ r.size \in Size
    BY <1>1
  <1> HIDE DEF r
  <1> QED
    BY <1>1, <1>2, OneWriterMoves

\* A writer takes its locks, and is told that its write fits.
LEMMA WriterProceeds ==
    ASSUME NInv, NEW w \in Writer, NEW pc \in {"enforce", "commit"}, writer[w].pc # "idle",
           Becomes(w, [writer[w] EXCEPT !.pc = pc]),
           UNCHANGED <<open, deleting, stored, counters, folder>>,
           TeamHolders \subseteq {w},
           pc = "commit" => Promised(writer[w])
    PROVE NInv'
  <1> DEFINE r == [writer[w] EXCEPT !.pc = pc]
  <1>1. /\ writer[w].ns \in open /\ writer[w].op \in {"put", "complete", "part"}
        /\ writer[w].size \in Size
        /\ writer[w].op # "part" => writer[w].key \in Key /\ writer[w].ns # deleting
    BY WritersChange, WritersKeepOut DEF NInv
  <1>2. writer[w] \in [pc : {"idle", "lockTeam", "enforce", "commit"},
                  op : {"put", "complete", "part", None},
                  ns : Namespace \cup {None}, key : Key \cup {None},
                  size : Size \cup {0}]
    BY DEF NInv, TypeOK
  <1>3. /\ r \in [pc : {"idle", "lockTeam", "enforce", "commit"},
                  op : {"put", "complete", "part", None},
                  ns : Namespace \cup {None}, key : Key \cup {None},
                  size : Size \cup {0}]
        /\ r.pc = pc /\ r.op = writer[w].op /\ r.ns = writer[w].ns
        /\ r.key = writer[w].key /\ r.size = writer[w].size
    BY <1>2
  <1> HIDE DEF r
  <1>4. Promised(r) <=> Promised(writer[w])
    BY <1>3 DEF Promised, LeftOut, Growth
  <1>5. Becomes(w, r)
    BY DEF r
  <1> QED
    BY <1>1, <1>3, <1>4, <1>5, OneWriterMoves

\* A writer ends without a trace.
LEMMA WriterEnds ==
    ASSUME NInv, NEW w \in Writer, Becomes(w, IdleWriter),
           UNCHANGED <<open, deleting, stored, counters, folder>>
    PROVE NInv'
  <1>1. /\ IdleWriter \in [pc : {"idle", "lockTeam", "enforce", "commit"},
                  op : {"put", "complete", "part", None},
                  ns : Namespace \cup {None}, key : Key \cup {None},
                  size : Size \cup {0}]
        /\ IdleWriter.pc = "idle"
    BY DEF IdleWriter
  <1> QED
    BY <1>1, OneWriterMoves

LEMMA LockTeamKeeps ==
    ASSUME NInv, NEW w \in Writer, LockTeam(w)
    PROVE NInv'
  BY WriterProceeds DEF LockTeam

LEMMA EnforceQuotaKeeps ==
    ASSUME NInv, NEW w \in Writer, EnforceQuota(w)
    PROVE NInv'
  <1>1. TeamHolders \subseteq {w}
    BY DEF NInv, OneHoldsTheTeam, TeamHolders, EnforceQuota
  <1>2. TenantUsage(LeftOut(writer[w])) = Total + Parts(LeftOut(writer[w]))
    BY TenantUsageIsStored DEF NInv
  <1>3. Promised(writer[w])
    BY <1>2 DEF Promised, Fits, EnforceQuota
  <1> QED
    BY <1>1, <1>3, WriterProceeds DEF EnforceQuota

\* The triggers append what an object changed, and nothing a fold has taken.
LEMMA Appended ==
    ASSUME deltas \subseteq Delta, IsFiniteSet(deltas), NEW n \in Namespace, NEW b \in Int,
           Append(n, b)
    PROVE /\ deltas' \subseteq Delta
          /\ IsFiniteSet(deltas')
          /\ deltas \subseteq deltas'
          /\ \A m : Bytes(deltas', m) = Bytes(deltas, m) + (IF m = n THEN b ELSE 0)
  <1>1. CASE b = 0 /\ UNCHANGED deltas
    <2>1. \A m : Bytes(deltas, m) \in Int
      BY BytesAreInt
    <2> QED
      BY <1>1, <2>1
  <1>2. CASE b # 0
    <2>1. PICK id \in DeltaId \ {d.id : d \in deltas} :
             deltas' = deltas \cup {[id |-> id, ns |-> n, bytes |-> b]}
      BY <1>2 DEF Append
    <2> DEFINE d == [id |-> id, ns |-> n, bytes |-> b]
    <2>2. d \in Delta /\ d \notin deltas /\ d.ns = n /\ d.bytes = b
      BY <2>1 DEF Delta
    <2> HIDE DEF d
    <2>3. deltas' = deltas \cup {d}
      BY <2>1 DEF d
    <2>4. IsFiniteSet(deltas')
      BY <2>3, FS_AddElement
    <2>5. \A m : Bytes(deltas \cup {d}, m) = Bytes(deltas, m) + (IF d.ns = m THEN d.bytes ELSE 0)
      BY <2>2, BytesGrow
    <2> QED
      BY <2>2, <2>3, <2>4, <2>5
  <1> QED
    BY <1>1, <1>2 DEF Append

\* An object changes, and it is counted.
LEMMA ObjectCounted ==
    ASSUME TypeOK, IsFiniteSet(deltas), UsageIsExact, FoldsKeepTheirDeltas,
           NEW n \in open, NEW k \in Key, NEW s \in Size \cup {0},
           objects' = [objects EXCEPT ![n][k] = s], Append(n, s - objects[n][k]),
           UNCHANGED <<open, usage, folder>>
    PROVE /\ objects' \in [Namespace -> [Key -> Size \cup {0}]]
          /\ \A m \in Namespace \ {n} : Weight(m)' = Weight(m)
          /\ Total' = Total + (s - objects[n][k])
          /\ deltas' \subseteq Delta
          /\ IsFiniteSet(deltas')
          /\ UsageIsExact'
          /\ FoldsKeepTheirDeltas'
  <1>1. /\ n \in Namespace /\ open \subseteq Namespace /\ s - objects[n][k] \in Int
        /\ deltas \subseteq Delta
        /\ objects \in [Namespace -> [Key -> Size \cup {0}]]
    BY Sizes DEF TypeOK
  <1>2. /\ objects' \in [Namespace -> [Key -> Size \cup {0}]]
        /\ Weight(n)' = Weight(n) + (s - objects[n][k])
        /\ \A m \in Namespace \ {n} : Weight(m)' = Weight(m)
        /\ Total' = Total + (s - objects[n][k])
    BY <1>1, ObjectChanges
  <1> DEFINE b == s - objects[n][k]
  <1>3. /\ deltas' \subseteq Delta
        /\ IsFiniteSet(deltas')
        /\ deltas \subseteq deltas'
        /\ \A m : Bytes(deltas', m) = Bytes(deltas, m) + (IF m = n THEN b ELSE 0)
    BY <1>1, Appended
  <1>4. UsageIsExact'
    <2> SUFFICES ASSUME NEW m \in open PROVE (Counter(m) + Bytes(deltas, m))' = Weight(m)'
      BY DEF UsageIsExact
    <2>1. /\ Counter(m)' = Counter(m) /\ Counter(m) \in Int /\ Bytes(deltas, m) \in Int
          /\ b \in Int /\ Counter(m) + Bytes(deltas, m) = Weight(m)
      BY <1>1, BytesAreInt DEF Counter, TypeOK, UsageIsExact
    <2>2. Bytes(deltas, m)' = Bytes(deltas, m) + (IF m = n THEN b ELSE 0)
      BY <1>3 DEF Bytes
    <2>3. Weight(m)' = Weight(m) + (IF m = n THEN b ELSE 0)
      <3>1. Weight(m) \in Nat
        BY <1>1, WeightsAreNat
      <3> QED
        BY <1>1, <1>2, <3>1
    <2> HIDE DEF b
    <2> QED
      BY <2>1, <2>2, <2>3
  <1>5. FoldsKeepTheirDeltas'
    BY <1>3 DEF FoldsKeepTheirDeltas
  <1> QED
    BY <1>2, <1>3, <1>4, <1>5

LEMMA CommitObjectKeeps ==
    ASSUME NInv, NEW w \in Writer, CommitObject(w)
    PROVE NInv'
  <1> DEFINE r == writer[w]
             n == writer[w].ns
             k == writer[w].key
             s == writer[w].size
  <1>1. /\ r.pc = "commit" /\ r.op # "part"
        /\ Append(n, Growth(r))
        /\ objects' = [objects EXCEPT ![n][k] = s]
        /\ completed' = completed \cup LeftOut(r)
        /\ Becomes(w, IdleWriter)
        /\ UNCHANGED <<open, deleting, part, usage, folder>>
    BY DEF CommitObject
  <1>2. /\ n \in open /\ n \in Namespace /\ k \in Key /\ s \in Size /\ s \in Nat
        /\ Growth(r) = s - objects[n][k] /\ Growth(r) \in Int
        /\ LeftOut(r) \subseteq {n} /\ n # deleting
    BY <1>1, WritersChange, WritersKeepOut DEF NInv
  <1>3. /\ TypeOK /\ IsFiniteSet(deltas) /\ UsageIsExact /\ FoldsKeepTheirDeltas
        /\ OneHoldsTheTeam /\ DeletedIsEmpty /\ WritersHaveSubjects
        /\ Promised(r)
    BY <1>1 DEF NInv
  <1>4. /\ objects' \in [Namespace -> [Key -> Size \cup {0}]]
        /\ \A m \in Namespace \ {n} : Weight(m)' = Weight(m)
        /\ Total' = Total + Growth(r)
        /\ deltas' \subseteq Delta
        /\ IsFiniteSet(deltas')
        /\ UsageIsExact'
        /\ FoldsKeepTheirDeltas'
    <2> HIDE DEF n, k, s, r
    <2> QED BY <1>1, <1>2, <1>3, ObjectCounted
  <1>5. /\ writer' \in [Writer -> [pc : {"idle", "lockTeam", "enforce", "commit"},
                              op : {"put", "complete", "part", None},
                              ns : Namespace \cup {None}, key : Key \cup {None},
                              size : Size \cup {0}]]
        /\ writer'[w] = IdleWriter /\ \A v \in Writer \ {w} : writer'[v] = writer[v]
    BY <1>1, <1>3 DEF TypeOK, Becomes, IdleWriter
  <1> HIDE DEF n, k, s
  <1>6. TypeOK'
    <2>1. completed' \subseteq open
      BY <1>1, <1>2, <1>3 DEF TypeOK
    <2>2. \A m \in Namespace \ open : Weight(m)' = 0 /\ part'[m] = 0 /\ usage'[m] = None
      BY <1>1, <1>2, <1>3, <1>4 DEF TypeOK
    <2> QED
      BY <1>1, <1>3, <1>4, <1>5, <2>1, <2>2 DEF TypeOK
  <1>7. WritersHaveSubjects' /\ OneHoldsTheTeam'
    BY <1>1, <1>3, <1>5 DEF WritersHaveSubjects, OneHoldsTheTeam, TeamHolders, IdleWriter
  <1>8. DeletedIsEmpty'
    <2> SUFFICES ASSUME deleting # None PROVE Weight(deleting)' = 0 /\ Writing(deleting)' = {}
      BY <1>1 DEF DeletedIsEmpty
    <2>1. deleting \in Namespace /\ Weight(deleting) = 0 /\ Writing(deleting) = {}
      BY <1>3 DEF TypeOK, DeletedIsEmpty
    <2>2. Writing(deleting)' = {}
      BY <1>1, <1>5, <2>1, Sizes DEF Writing, IdleWriter
    <2>3. Weight(deleting)' = 0
      BY <1>1, <1>2, <1>4, <2>1
    <2> QED
      BY <2>2, <2>3
  <1>9. ASSUME NEW v \in Writer PROVE writer'[v].pc # "commit"
    BY <1>1, <1>3, <1>5 DEF OneHoldsTheTeam, TeamHolders, IdleWriter
  <1>10. (Total + Parts(completed))' <= Limit
    <2>1. /\ Parts(completed)' = Parts(completed \cup LeftOut(r))
          /\ Parts(completed \cup LeftOut(r)) <= Parts(LeftOut(r))
          /\ Parts(completed \cup LeftOut(r)) \in Nat /\ Parts(LeftOut(r)) \in Nat
      BY <1>1, <1>3, PartsLeftOut, PartsAreNat DEF TypeOK, Parts
    <2>2. Total + Parts(LeftOut(r)) + Growth(r) <= Limit /\ Total \in Nat
      BY <1>3, TotalIsNat DEF TypeOK, Promised
    <2> HIDE DEF r
    <2> QED
      BY <1>2, <1>4, <2>1, <2>2, QuotaAssumption
  <1> QED
    BY <1>4, <1>6, <1>7, <1>8, <1>9, <1>10 DEF NInv

LEMMA CommitPartKeeps ==
    ASSUME NInv, NEW w \in Writer, CommitPart(w)
    PROVE NInv'
  <1> DEFINE r == writer[w]
             n == writer[w].ns
             s == writer[w].size
  <1>1. /\ r.pc = "commit" /\ r.op = "part"
        /\ part' = [part EXCEPT ![n] = s]
        /\ Becomes(w, IdleWriter)
        /\ open' = open /\ deleting' = deleting /\ objects' = objects /\ completed' = completed
        /\ usage' = usage /\ deltas' = deltas /\ folder' = folder
    BY DEF CommitPart, counters
  <1>2. /\ n \in open /\ n \in Namespace /\ s \in Size \cup {0} /\ s \in Nat
        /\ Growth(r) = s - part[n] /\ LeftOut(r) = {}
    BY <1>1, WritersChange DEF NInv
  <1>3. /\ TypeOK /\ WritersHaveSubjects /\ OneHoldsTheTeam /\ DeletedIsEmpty /\ UsageIsExact
        /\ FoldsKeepTheirDeltas /\ Promised(r) /\ Total + Parts(completed) <= Limit
        /\ part \in [Namespace -> Size \cup {0}] /\ open \subseteq Namespace
    BY <1>1 DEF NInv, TypeOK
  <1>4. /\ writer' \in [Writer -> [pc : {"idle", "lockTeam", "enforce", "commit"},
                              op : {"put", "complete", "part", None},
                              ns : Namespace \cup {None}, key : Key \cup {None},
                              size : Size \cup {0}]]
        /\ writer'[w] = IdleWriter /\ \A v \in Writer \ {w} : writer'[v] = writer[v]
    BY <1>1, <1>3 DEF TypeOK, Becomes, IdleWriter
  <1>5. Total' = Total /\ \A m \in Namespace : Weight(m)' = Weight(m)
    BY <1>1 DEF Total, Weight
  <1> HIDE DEF n, s
  <1>6. TypeOK'
    <2>1. part' \in [Namespace -> Size \cup {0}]
      BY <1>1, <1>2, <1>3
    <2>2. \A m \in Namespace \ open : part'[m] = 0
      BY <1>1, <1>2, <1>3 DEF TypeOK
    <2> QED
      BY <1>1, <1>3, <1>4, <1>5, <2>1, <2>2 DEF TypeOK
  <1>7. WritersHaveSubjects' /\ OneHoldsTheTeam'
    BY <1>1, <1>3, <1>4 DEF WritersHaveSubjects, OneHoldsTheTeam, TeamHolders, IdleWriter
  <1>8. DeletedIsEmpty'
    <2> SUFFICES ASSUME deleting # None PROVE Weight(deleting)' = 0 /\ Writing(deleting)' = {}
      BY <1>1 DEF DeletedIsEmpty
    <2>1. deleting \in Namespace /\ Weight(deleting) = 0 /\ Writing(deleting) = {}
      BY <1>3 DEF TypeOK, DeletedIsEmpty
    <2>2. Writing(deleting)' = {}
      BY <1>1, <1>4, <2>1, Sizes DEF Writing, IdleWriter
    <2>3. Weight(deleting)' = 0
      BY <1>1, <1>5, <2>1
    <2> QED
      BY <2>2, <2>3
  <1>9. UsageIsExact' /\ FoldsKeepTheirDeltas' /\ IsFiniteSet(deltas)'
    BY <1>1, <1>3, <1>5 DEF NInv, UsageIsExact, FoldsKeepTheirDeltas, Counter
  <1>10. ASSUME NEW v \in Writer PROVE writer'[v].pc # "commit"
    BY <1>1, <1>3, <1>4 DEF OneHoldsTheTeam, TeamHolders, IdleWriter
  <1>11. (Total + Parts(completed))' <= Limit
    <2>1. Parts(completed)' = Parts(completed) + (IF n \in completed THEN 0 ELSE s - part[n])
      <3>1. \A c : Parts(c)' = Parts(c) + (IF n \in c THEN 0 ELSE s - part[n])
        BY <1>1, <1>2, <1>3, PartChanges
      <3> QED
        BY <1>1, <3>1 DEF Parts
    <2>2. Parts(completed) <= Parts({}) /\ Parts(completed) \in Nat /\ Parts({}) \in Nat
      BY <1>3, PartsLeftOut, PartsAreNat
    <2>3. Total + Parts({}) + (s - part[n]) <= Limit /\ Total \in Nat /\ part[n] \in Nat
      BY <1>2, <1>3, TotalIsNat, PartsAreNat DEF TypeOK, Promised
    <2> QED
      BY <1>2, <1>3, <1>5, <2>1, <2>2, <2>3, QuotaAssumption
  <1> QED
    BY <1>6, <1>7, <1>8, <1>9, <1>10, <1>11 DEF NInv

\* An upload's parts go, and nothing else weighs more for it.
LEMMA PartsDropped ==
    ASSUME TypeOK, NEW n \in Namespace, DropParts(n)
    PROVE /\ part' \in [Namespace -> Size \cup {0}]
          /\ part'[n] = 0 /\ \A m \in Namespace \ {n} : part'[m] = part[m]
          /\ completed' = completed \ {n}
          /\ \A leftOut : /\ Parts(leftOut)' <= Parts(leftOut)
                          /\ Parts(leftOut)' \in Nat /\ Parts(leftOut) \in Nat
          /\ Parts(completed)' <= Parts(completed)
          /\ Parts(completed)' \in Nat /\ Parts(completed) \in Nat
  <1>1. /\ part' = [part EXCEPT ![n] = 0] /\ completed' = completed \ {n}
        /\ part \in [Namespace -> Size \cup {0}]
    BY DEF DropParts, TypeOK
  <1>2. part' \in [Namespace -> Size \cup {0}]
    BY <1>1
  <1>3. \A c : Parts(c)' = Parts(c) + (IF n \in c THEN 0 ELSE 0 - part[n])
    BY <1>1, PartChanges
  <1>4. part[n] \in Nat /\ (\A c : Parts(c) \in Nat)
    BY <1>1, PartsAreNat
  <1>5. \A c : Parts(c)' \in Nat
    <2>1. \A S \in SUBSET Namespace : SumFunctionOnSet(part', S) \in Nat
      <3>1. \A m \in Namespace : part'[m] \in Nat
        BY <1>2, Sizes
      <3> QED
        BY <3>1, Sizes, SumIsNat
    <2>2. \A c : Namespace \ c \in SUBSET Namespace
      OBVIOUS
    <2> QED
      BY <2>1, <2>2 DEF Parts
  <1>6. \A c : Parts(c)' <= Parts(c)
    BY <1>3, <1>4, <1>5
  <1>7. Parts(completed)' <= Parts(completed) /\ Parts(completed)' \in Nat
    <2> DEFINE c == completed \ {n}
    <2>1. Parts(completed)' = SumFunctionOnSet(part', Namespace \ c)
      BY <1>1 DEF Parts
    <2>2. \A d : Parts(d)' = SumFunctionOnSet(part', Namespace \ d)
      BY DEF Parts
    <2>3. SumFunctionOnSet(part', Namespace \ c) = Parts(c) - part[n]
      BY <1>3, <1>4, <2>2
    <2>4. Parts(c) = part[n] + Parts(c \cup {n})
      BY <1>1, PartsLeftOut
    <2>5. Parts(c \cup {n}) <= Parts(completed)
      BY <1>1, PartsLeftOut
    <2> HIDE DEF c
    <2> QED
      BY <1>4, <2>1, <2>3, <2>4, <2>5
  <1> QED
    BY <1>1, <1>2, <1>4, <1>5, <1>6, <1>7

\* What writers were promised still fits when others' parts, or objects, go.
LEMMA PromisesOutlastRemovals ==
    ASSUME NInv, writer' = writer,
           objects' \in [Namespace -> [Key -> Size \cup {0}]],
           Total' <= Total,
           \A leftOut : Parts(leftOut)' <= Parts(leftOut),
           \A leftOut : Parts(leftOut)' \in Nat,
           \A w \in Writer : writer[w].pc = "commit" => Growth(writer[w])' = Growth(writer[w])
    PROVE (\A w \in Writer : writer[w].pc = "commit" => Promised(writer[w]))'
  <1>1. Total \in Nat /\ (\A leftOut : Parts(leftOut) \in Nat)
    BY TotalIsNat, PartsAreNat DEF NInv, TypeOK
  <1>2. Total' \in Nat
    <2>1. \A n \in Namespace : Weight(n)' \in Nat
      <3> TAKE n \in Namespace
      <3>1. DOMAIN objects'[n] = Key /\ \A k \in Key : objects'[n][k] \in Nat
        BY Sizes
      <3>2. SumFunctionOnSet(objects'[n], Key) \in Nat
        BY <3>1, Sizes, SumIsNat
      <3> QED
        BY <3>1, <3>2 DEF Weight, SumFunction
    <2> DEFINE v == [n \in Namespace |-> Weight(n)']
    <2>2. \A n \in Namespace : v[n] \in Nat
      BY <2>1
    <2>3. SumFunctionOnSet(v, Namespace) \in Nat
      <3> HIDE DEF v
      <3> QED BY <2>2, Sizes, SumIsNat
    <2> QED
      BY <2>3 DEF Total, SumFunction
  <1>3. ASSUME NEW w \in Writer, writer[w].pc = "commit"
        PROVE Total' + Parts(LeftOut(writer[w]))' + Growth(writer[w])' <= Limit
    <2> DEFINE l == LeftOut(writer[w])
               g == Growth(writer[w])
    <2>1. Total + Parts(l) + g <= Limit /\ g \in Int /\ g' = g
      BY <1>3, WritersChange DEF NInv, Promised
    <2>2. Parts(l)' = SumFunctionOnSet(part', Namespace \ l)
      BY DEF Parts, LeftOut
    <2>3. \A c : Parts(c)' = SumFunctionOnSet(part', Namespace \ c)
      BY DEF Parts
    <2>4. Parts(l)' <= Parts(l) /\ Parts(l)' \in Nat /\ Parts(l) \in Nat
      BY <1>1, <2>2, <2>3
    <2> HIDE DEF l, g
    <2>5. Total' + Parts(l)' + g' <= Limit
      BY <1>1, <1>2, <2>1, <2>4, QuotaAssumption
    <2> QED
      BY <2>5 DEF l, g
  <1> QED
    BY <1>3 DEF Promised

LEMMA RemoveMultipartKeeps ==
    ASSUME NInv, NEW n \in Namespace, RemoveMultipart(n)
    PROVE NInv'
  <1>1. /\ DropParts(n) /\ PartWriting(n) = {}
        /\ open' = open /\ deleting' = deleting /\ objects' = objects
        /\ usage' = usage /\ deltas' = deltas /\ writer' = writer /\ folder' = folder
    BY DEF RemoveMultipart, DropParts, counters
  <1>2. TypeOK /\ objects \in [Namespace -> [Key -> Size \cup {0}]] /\ open \subseteq Namespace
    BY DEF NInv, TypeOK
  <1>3. /\ part' \in [Namespace -> Size \cup {0}]
        /\ part'[n] = 0 /\ \A m \in Namespace \ {n} : part'[m] = part[m]
        /\ completed' = completed \ {n}
        /\ \A leftOut : Parts(leftOut)' <= Parts(leftOut) /\ Parts(leftOut)' \in Nat
        /\ Parts(completed)' <= Parts(completed)
        /\ Parts(completed)' \in Nat /\ Parts(completed) \in Nat
    BY <1>1, <1>2, PartsDropped
  <1>4. Total' = Total /\ Total \in Nat /\ \A m \in Namespace : Weight(m)' = Weight(m)
    BY <1>1, <1>2, TotalIsNat DEF Total, Weight
  <1>5. TypeOK'
    BY <1>1, <1>2, <1>3, <1>4 DEF TypeOK
  <1>6. /\ WritersHaveSubjects' /\ OneHoldsTheTeam' /\ FoldsKeepTheirDeltas' /\ UsageIsExact'
        /\ IsFiniteSet(deltas)'
    BY <1>1, <1>2, <1>4 DEF NInv, WritersHaveSubjects, OneHoldsTheTeam, TeamHolders,
           FoldsKeepTheirDeltas, UsageIsExact, Counter
  <1>7. DeletedIsEmpty'
    BY <1>1, <1>4 DEF NInv, DeletedIsEmpty, Writing, TypeOK
  <1>8. ASSUME NEW w \in Writer, writer[w].pc = "commit"
        PROVE Growth(writer[w])' = Growth(writer[w])
    <2>1. writer[w].ns \in Namespace
      BY <1>8, WritersChange DEF NInv
    <2>2. writer[w].op = "part" => writer[w].ns # n
      BY <1>1 DEF PartWriting
    <2> QED
      BY <1>1, <1>3, <2>1, <2>2 DEF Growth
  <1>9. (\A w \in Writer : writer[w].pc = "commit" => Promised(writer[w]))'
    BY <1>1, <1>2, <1>3, <1>4, <1>8, PromisesOutlastRemovals
  <1>10. (Total + Parts(completed))' <= Limit
    BY <1>3, <1>4, QuotaAssumption DEF NInv
  <1> QED
    BY <1>5, <1>6, <1>7, <1>9, <1>10 DEF NInv

LEMMA DeleteObjectKeeps ==
    ASSUME NInv, NEW n \in Namespace, NEW k \in Key, DeleteObject(n, k)
    PROVE NInv'
  <1>1. /\ objects[n][k] # 0 /\ KeyHolders(n, k) = {}
        /\ Append(n, -objects[n][k])
        /\ objects' = [objects EXCEPT ![n][k] = 0]
        /\ open' = open /\ deleting' = deleting /\ part' = part /\ completed' = completed
        /\ usage' = usage /\ writer' = writer /\ folder' = folder
    BY DEF DeleteObject
  <1>2. /\ TypeOK /\ IsFiniteSet(deltas) /\ UsageIsExact /\ FoldsKeepTheirDeltas
        /\ objects \in [Namespace -> [Key -> Size \cup {0}]]
        /\ part \in [Namespace -> Size \cup {0}]
    BY DEF NInv, TypeOK
  <1>3. Weight(n) # 0 /\ objects[n][k] \in Nat /\ 0 \in Size \cup {0}
    BY <1>1, <1>2, WeightsAreNat
  <1>4. n \in open /\ n # deleting /\ -objects[n][k] = 0 - objects[n][k]
    <2>1. n # None
      BY Sizes
    <2> QED
      BY <1>2, <1>3, <2>1 DEF TypeOK, NInv, DeletedIsEmpty
  <1>5. /\ objects' \in [Namespace -> [Key -> Size \cup {0}]]
        /\ \A m \in Namespace \ {n} : Weight(m)' = Weight(m)
        /\ Total' = Total + (0 - objects[n][k])
        /\ deltas' \subseteq Delta
        /\ IsFiniteSet(deltas')
        /\ UsageIsExact'
        /\ FoldsKeepTheirDeltas'
    BY <1>1, <1>2, <1>3, <1>4, ObjectCounted
  <1>6. TypeOK'
    <2>1. \A m \in Namespace \ open : Weight(m)' = 0
      BY <1>2, <1>4, <1>5 DEF TypeOK
    <2> QED
      BY <1>1, <1>2, <1>5, <2>1 DEF TypeOK
  <1>7. WritersHaveSubjects' /\ OneHoldsTheTeam'
    BY <1>1 DEF NInv, WritersHaveSubjects, OneHoldsTheTeam, TeamHolders
  <1>8. DeletedIsEmpty'
    BY <1>1, <1>4, <1>5 DEF NInv, DeletedIsEmpty, Writing, TypeOK
  <1>9. ASSUME NEW w \in Writer, writer[w].pc = "commit"
        PROVE Growth(writer[w])' = Growth(writer[w])
    <2>1. writer[w].ns \in Namespace /\ (writer[w].op # "part" => writer[w].key \in Key)
      BY <1>9, WritersChange DEF NInv
    <2>2. writer[w].op # "part" => <<writer[w].ns, writer[w].key>> # <<n, k>>
      BY <1>1 DEF KeyHolders, Writing
    <2> QED
      BY <1>1, <1>2, <2>1, <2>2 DEF Growth
  <1>10. /\ Total \in Nat /\ Total' <= Total /\ Total' \in Int
         /\ \A leftOut : Parts(leftOut)' = Parts(leftOut) /\ Parts(leftOut) \in Nat
    BY <1>1, <1>2, <1>3, <1>5, TotalIsNat, PartsAreNat DEF Parts
  <1>11. (\A w \in Writer : writer[w].pc = "commit" => Promised(writer[w]))'
    <2>1. \A leftOut : Parts(leftOut)' <= Parts(leftOut) /\ Parts(leftOut)' \in Nat
      BY <1>10
    <2> QED
      BY <1>1, <1>5, <1>9, <1>10, <2>1, PromisesOutlastRemovals
  <1>12. (Total + Parts(completed))' <= Limit
    <2>1. Parts(completed)' = Parts(completed) /\ Parts(completed) \in Nat
      BY <1>1, <1>2, PartsAreNat DEF Parts
    <2> QED
      BY <1>10, <2>1, QuotaAssumption DEF NInv
  <1> QED
    BY <1>5, <1>6, <1>7, <1>8, <1>11, <1>12 DEF NInv

LEMMA CreateNamespaceKeeps ==
    ASSUME NInv, NEW n \in Namespace, CreateNamespace(n)
    PROVE NInv'
  <1>1. /\ n \notin open /\ open' = open \cup {n}
        /\ \A d \in deltas : d.ns # n
        /\ deleting' = deleting /\ objects' = objects /\ part' = part /\ completed' = completed
        /\ usage' = usage /\ deltas' = deltas /\ writer' = writer /\ folder' = folder
    BY DEF CreateNamespace, stored, counters
  <1>2. TypeOK
    BY DEF NInv
  <1>3. /\ Total' = Total /\ (\A m \in Namespace : Weight(m)' = Weight(m))
        /\ \A m \in Namespace : Counter(m)' = Counter(m)
    BY <1>1 DEF Total, Weight, Counter
  <1>4. TypeOK'
    BY <1>1, <1>2, <1>3 DEF TypeOK
  <1>5. WritersHaveSubjects' /\ OneHoldsTheTeam' /\ IsFiniteSet(deltas)'
    BY <1>1 DEF NInv, WritersHaveSubjects, OneHoldsTheTeam, TeamHolders
  <1>6. FoldsKeepTheirDeltas'
    BY <1>1 DEF NInv, FoldsKeepTheirDeltas
  <1>7. DeletedIsEmpty'
    BY <1>1, <1>2, <1>3 DEF NInv, DeletedIsEmpty, Writing, TypeOK
  <1>8. UsageIsExact'
    <2> SUFFICES ASSUME NEW m \in open' PROVE (Counter(m) + Bytes(deltas, m))' = Weight(m)'
      BY DEF UsageIsExact
    <2>1. m \in Namespace /\ Bytes(deltas, m)' = Bytes(deltas, m)
      BY <1>1, <1>2 DEF TypeOK, Bytes
    <2>2. CASE m = n
      <3>1. Counter(n) = 0 /\ Weight(n) = 0
        BY <1>1, <1>2 DEF TypeOK, Counter
      <3>2. Bytes(deltas, n) = 0
        BY <1>1, BytesOfNone
      <3> QED
        BY <1>3, <2>1, <2>2, <3>1, <3>2
    <2>3. CASE m # n
      <3>1. m \in open
        BY <1>1, <2>3
      <3> QED
        BY <1>3, <2>1, <3>1 DEF NInv, UsageIsExact
    <2> QED
      BY <2>2, <2>3
  <1>9. (\A w \in Writer : writer[w].pc = "commit" => Promised(writer[w]))'
    BY <1>1, <1>3 DEF NInv, Promised, Parts, LeftOut, Growth
  <1>10. (Total + Parts(completed))' <= Limit
    BY <1>1, <1>3 DEF NInv, Parts
  <1> QED
    BY <1>4, <1>5, <1>6, <1>7, <1>8, <1>9, <1>10 DEF NInv

LEMMA LockNamespaceKeeps ==
    ASSUME NInv, NEW n \in Namespace, LockNamespace(n)
    PROVE NInv'
  <1>1. /\ n \in open /\ Inserting(n) = {} /\ Weight(n) = 0 /\ deleting' = n
        /\ open' = open /\ objects' = objects /\ part' = part /\ completed' = completed
        /\ usage' = usage /\ deltas' = deltas /\ writer' = writer /\ folder' = folder
    BY DEF LockNamespace, stored, counters
  <1>2. TypeOK /\ objects \in [Namespace -> [Key -> Size \cup {0}]]
    BY DEF NInv, TypeOK
  <1>3. Writing(n) = {}
    <2> SUFFICES ASSUME NEW w \in Writing(n) PROVE FALSE
      OBVIOUS
    <2>1. w \in Writer /\ writer[w].ns = n /\ writer[w].op # "part"
      BY DEF Writing
    <2>2. writer[w].pc # "idle"
      BY <2>1, Sizes DEF NInv, WritersHaveSubjects, IdleWriter
    <2>3. writer[w].key \in Key
      BY <2>1, <2>2, WritersChange DEF NInv
    <2>4. objects[n][writer[w].key] = 0
      BY <1>1, <1>2, <2>3, WeightsAreNat
    <2> QED
      BY <1>1, <2>4 DEF Inserting
  <1>4. /\ Total' = Total /\ (\A m \in Namespace : Weight(m)' = Weight(m))
        /\ \A m \in Namespace : Counter(m)' = Counter(m)
    BY <1>1 DEF Total, Weight, Counter
  <1>5. TypeOK'
    BY <1>1, <1>2, <1>4 DEF TypeOK
  <1>6. /\ WritersHaveSubjects' /\ OneHoldsTheTeam' /\ IsFiniteSet(deltas)'
        /\ FoldsKeepTheirDeltas'
    BY <1>1 DEF NInv, WritersHaveSubjects, OneHoldsTheTeam, TeamHolders, FoldsKeepTheirDeltas
  <1>7. DeletedIsEmpty'
    BY <1>1, <1>3, <1>4 DEF DeletedIsEmpty, Writing
  <1>8. UsageIsExact'
    BY <1>1, <1>2, <1>4 DEF NInv, UsageIsExact, TypeOK, Bytes
  <1>9. (\A w \in Writer : writer[w].pc = "commit" => Promised(writer[w]))'
    BY <1>1, <1>4 DEF NInv, Promised, Parts, LeftOut, Growth
  <1>10. (Total + Parts(completed))' <= Limit
    BY <1>1, <1>4 DEF NInv, Parts
  <1> QED
    BY <1>5, <1>6, <1>7, <1>8, <1>9, <1>10 DEF NInv

LEMMA FailDeleteKeeps ==
    ASSUME NInv, FailDelete
    PROVE NInv'
  <1>1. /\ deleting' = None
        /\ open' = open /\ objects' = objects /\ part' = part /\ completed' = completed
        /\ usage' = usage /\ deltas' = deltas /\ writer' = writer /\ folder' = folder
    BY DEF FailDelete, stored, counters
  <1>2. /\ Total' = Total /\ (\A m \in Namespace : Weight(m)' = Weight(m))
        /\ \A m \in Namespace : Counter(m)' = Counter(m)
    BY <1>1 DEF Total, Weight, Counter
  <1>3. TypeOK'
    BY <1>1, <1>2 DEF NInv, TypeOK
  <1>4. /\ WritersHaveSubjects' /\ OneHoldsTheTeam' /\ IsFiniteSet(deltas)'
        /\ FoldsKeepTheirDeltas' /\ DeletedIsEmpty'
    BY <1>1 DEF NInv, WritersHaveSubjects, OneHoldsTheTeam, TeamHolders, FoldsKeepTheirDeltas,
           DeletedIsEmpty
  <1>5. UsageIsExact'
    BY <1>1, <1>2 DEF NInv, UsageIsExact, TypeOK, Bytes
  <1>6. (\A w \in Writer : writer[w].pc = "commit" => Promised(writer[w]))'
    BY <1>1, <1>2 DEF NInv, Promised, Parts, LeftOut, Growth
  <1>7. (Total + Parts(completed))' <= Limit
    BY <1>1, <1>2 DEF NInv, Parts
  <1> QED
    BY <1>3, <1>4, <1>5, <1>6, <1>7 DEF NInv

LEMMA DeleteNamespaceKeeps ==
    ASSUME NInv, DeleteNamespace
    PROVE NInv'
  <1> DEFINE n == deleting
  <1>1. /\ n # None /\ DropParts(n) /\ PartWriting(n) = {}
        /\ open' = open \ {n} /\ usage' = [usage EXCEPT ![n] = None] /\ deleting' = None
        /\ objects' = objects /\ deltas' = deltas /\ writer' = writer /\ folder' = folder
    BY DEF DeleteNamespace, DropParts
  <1>2. /\ TypeOK /\ objects \in [Namespace -> [Key -> Size \cup {0}]] /\ open \subseteq Namespace
        /\ n \in open /\ n \in Namespace /\ Weight(n) = 0 /\ Writing(n) = {}
    BY <1>1 DEF NInv, TypeOK, DeletedIsEmpty
  <1> HIDE DEF n
  <1>3. /\ part' \in [Namespace -> Size \cup {0}]
        /\ part'[n] = 0 /\ \A m \in Namespace \ {n} : part'[m] = part[m]
        /\ completed' = completed \ {n}
        /\ \A leftOut : Parts(leftOut)' <= Parts(leftOut) /\ Parts(leftOut)' \in Nat
        /\ Parts(completed)' <= Parts(completed)
        /\ Parts(completed)' \in Nat /\ Parts(completed) \in Nat
    BY <1>1, <1>2, PartsDropped
  <1>4. Total' = Total /\ Total \in Nat /\ \A m \in Namespace : Weight(m)' = Weight(m)
    BY <1>1, <1>2, TotalIsNat DEF Total, Weight
  <1>5. TypeOK'
    <2>1. /\ open' \subseteq Namespace /\ deleting' \in open' \cup {None} /\ completed' \subseteq open'
          /\ usage' \in [Namespace -> Int \cup {None}]
      BY <1>1, <1>2, <1>3 DEF TypeOK
    <2>2. \A m \in Namespace \ open' : Weight(m)' = 0 /\ part'[m] = 0 /\ usage'[m] = None
      BY <1>1, <1>2, <1>3, <1>4 DEF TypeOK
    <2> QED
      BY <1>1, <1>2, <1>3, <2>1, <2>2 DEF TypeOK
  <1>6. ASSUME NEW w \in Writer, writer[w].pc # "idle"
        PROVE writer[w].ns # n
    BY <1>1, <1>2 DEF Writing, PartWriting
  <1>7. WritersHaveSubjects' /\ OneHoldsTheTeam' /\ IsFiniteSet(deltas)' /\ DeletedIsEmpty'
    BY <1>1, <1>6 DEF NInv, WritersHaveSubjects, OneHoldsTheTeam, TeamHolders, DeletedIsEmpty
  <1>8. FoldsKeepTheirDeltas'
    BY <1>1 DEF NInv, FoldsKeepTheirDeltas
  <1>9. UsageIsExact'
    <2> SUFFICES ASSUME NEW m \in open' PROVE (Counter(m) + Bytes(deltas, m))' = Weight(m)'
      BY DEF UsageIsExact
    <2>1. m \in open /\ m \in Namespace /\ m # n
      BY <1>1, <1>2
    <2>2. Counter(m)' = Counter(m) /\ Bytes(deltas, m)' = Bytes(deltas, m)
      BY <1>1, <1>2, <2>1 DEF Counter, Bytes, TypeOK
    <2> QED
      BY <1>4, <2>1, <2>2 DEF NInv, UsageIsExact
  <1>10. ASSUME NEW w \in Writer, writer[w].pc = "commit"
         PROVE Growth(writer[w])' = Growth(writer[w])
    <2>1. writer[w].ns \in Namespace /\ writer[w].ns # n
      BY <1>6, <1>10, WritersChange DEF NInv
    <2> QED
      BY <1>1, <1>3, <2>1 DEF Growth
  <1>11. (\A w \in Writer : writer[w].pc = "commit" => Promised(writer[w]))'
    BY <1>1, <1>2, <1>3, <1>4, <1>10, PromisesOutlastRemovals
  <1>12. (Total + Parts(completed))' <= Limit
    BY <1>3, <1>4, QuotaAssumption DEF NInv
  <1> QED
    BY <1>5, <1>7, <1>8, <1>9, <1>11, <1>12 DEF NInv

\* A fold begins or ends, and what is stored stays as it is, and as it is counted.
LEMMA OneFolderMoves ==
    ASSUME NInv, NEW f \in Folder, NEW r, Folds(f, r),
           UNCHANGED <<open, deleting, stored, writer>>,
           r \in [taken : SUBSET Delta, counted : SUBSET Namespace],
           usage' \in [Namespace -> Int \cup {None}],
           \A n \in Namespace \ open : usage'[n] = None,
           deltas' \subseteq deltas,
           r.taken \subseteq deltas',
           \A g \in Folder \ {f} : folder[g].taken \subseteq deltas' /\ folder[g].taken \cap r.taken = {},
           \A d \in r.taken : d.ns \in open => d.ns \in r.counted,
           \A n \in open : Counter(n)' + Bytes(deltas', n) = Weight(n)
    PROVE NInv'
  <1>1. /\ folder' = [folder EXCEPT ![f] = r]
        /\ folder \in [Folder -> [taken : SUBSET Delta, counted : SUBSET Namespace]]
        /\ open' = open /\ deleting' = deleting /\ objects' = objects /\ part' = part
        /\ completed' = completed /\ writer' = writer
    BY DEF Folds, stored, NInv, TypeOK
  <1>2. folder'[f] = r /\ \A g \in Folder \ {f} : folder'[g] = folder[g]
    BY <1>1
  <1>3. Total' = Total /\ \A m \in Namespace : Weight(m)' = Weight(m)
    BY <1>1 DEF Total, Weight
  <1>4. TypeOK'
    <2>1. folder' \in [Folder -> [taken : SUBSET Delta, counted : SUBSET Namespace]]
      BY <1>1
    <2>2. deltas' \subseteq Delta
      BY DEF NInv, TypeOK
    <2> QED
      BY <1>1, <1>3, <2>1, <2>2 DEF NInv, TypeOK
  <1>5. IsFiniteSet(deltas)'
    BY FS_Subset DEF NInv
  <1>6. WritersHaveSubjects' /\ OneHoldsTheTeam'
    BY <1>1 DEF NInv, WritersHaveSubjects, OneHoldsTheTeam, TeamHolders
  <1>7. FoldsKeepTheirDeltas'
    BY <1>1, <1>2 DEF NInv, FoldsKeepTheirDeltas
  <1>8. DeletedIsEmpty'
    BY <1>1, <1>3 DEF NInv, DeletedIsEmpty, Writing, TypeOK
  <1>9. UsageIsExact'
    BY <1>1, <1>3 DEF NInv, TypeOK, UsageIsExact, Bytes
  <1>10. (\A w \in Writer : writer[w].pc = "commit" => Promised(writer[w]))'
    BY <1>1, <1>3 DEF NInv, Promised, Parts, LeftOut, Growth
  <1>11. (Total + Parts(completed))' <= Limit
    BY <1>1, <1>3 DEF NInv, Parts
  <1> QED
    BY <1>4, <1>5, <1>6, <1>7, <1>8, <1>9, <1>10, <1>11 DEF NInv

LEMMA TakeDeltasKeeps ==
    ASSUME NInv, NEW f \in Folder, TakeDeltas(f)
    PROVE NInv'
  <1> DEFINE free == deltas \ Locked
             r == [taken |-> free, counted |-> {d.ns : d \in free} \cap open]
  <1>1. Folds(f, r) /\ UNCHANGED <<open, deleting, stored, counters, writer>>
    BY DEF TakeDeltas
  <1>2. TypeOK /\ UsageIsExact /\ FoldsKeepTheirDeltas
    BY DEF NInv
  <1>3. /\ r \in [taken : SUBSET Delta, counted : SUBSET Namespace]
        /\ r.taken = free
        /\ \A d \in r.taken : d.ns \in open => d.ns \in r.counted
    BY <1>2 DEF TypeOK
  <1>4. \A g \in Folder \ {f} : folder[g].taken \subseteq deltas /\ folder[g].taken \cap free = {}
    BY <1>2 DEF FoldsKeepTheirDeltas, Locked
  <1>5. /\ deltas' = deltas /\ usage' = usage /\ free \subseteq deltas
        /\ usage' \in [Namespace -> Int \cup {None}]
        /\ \A n \in Namespace \ open : usage'[n] = None
    BY <1>1, <1>2 DEF counters, TypeOK
  <1>6. \A n \in open : Counter(n)' + Bytes(deltas', n) = Weight(n)
    BY <1>2, <1>5 DEF UsageIsExact, Counter
  <1> HIDE DEF r, free
  <1> QED
    BY <1>1, <1>3, <1>4, <1>5, <1>6, OneFolderMoves

LEMMA FoldUsageKeeps ==
    ASSUME NInv, NEW f \in Folder, FoldUsage(f)
    PROVE NInv'
  <1> DEFINE r == folder[f]
  <1>1. /\ \A n \in r.counted : usage[n] = None => n \in open \ {deleting}
        /\ deltas' = deltas \ r.taken
        /\ usage' = [n \in Namespace |->
                        IF n \in r.counted THEN Counter(n) + Bytes(r.taken, n) ELSE usage[n]]
        /\ Folds(f, IdleFolder)
        /\ UNCHANGED <<open, deleting, stored, writer>>
    BY DEF FoldUsage
  <1>2. /\ TypeOK /\ UsageIsExact /\ FoldsKeepTheirDeltas /\ IsFiniteSet(deltas)
        /\ deltas \subseteq Delta /\ r.taken \subseteq deltas
        /\ open \subseteq Namespace
    BY DEF NInv, TypeOK, FoldsKeepTheirDeltas
  <1>3. IsFiniteSet(r.taken) /\ r.taken \subseteq Delta /\ r.taken \in SUBSET deltas
    BY <1>2, FS_Subset
  <1>4. \A n \in Namespace : /\ Counter(n) \in Int
                             /\ Bytes(r.taken, n) \in Int
                             /\ Bytes(deltas', n) \in Int
                             /\ Bytes(deltas, n) = Bytes(r.taken, n) + Bytes(deltas', n)
    <2>1. IsFiniteSet(deltas') /\ deltas' \subseteq Delta
      BY <1>1, <1>2, FS_Subset
    <2> TAKE n \in Namespace
    <2>2. Counter(n) \in Int
      BY <1>2 DEF TypeOK, Counter
    <2>3. Bytes(r.taken, n) \in Int /\ Bytes(deltas', n) \in Int
      BY <1>3, <2>1, BytesAreInt
    <2>4. Bytes(deltas, n) = Bytes(r.taken, n) + Bytes(deltas', n)
      BY <1>1, <1>2, <1>3, BytesInParts
    <2> QED
      BY <2>2, <2>3, <2>4
  <1>5. usage' \in [Namespace -> Int \cup {None}]
    BY <1>1, <1>2, <1>4 DEF TypeOK
  <1>6. \A n \in Namespace \ open : usage'[n] = None
    BY <1>1, <1>2 DEF TypeOK
  <1>7. /\ IdleFolder \in [taken : SUBSET Delta, counted : SUBSET Namespace]
        /\ IdleFolder.taken = {}
    BY DEF IdleFolder
  <1>8. \A g \in Folder \ {f} : folder[g].taken \subseteq deltas'
    BY <1>1, <1>2 DEF FoldsKeepTheirDeltas
  <1>9. \A n \in open : Counter(n)' + Bytes(deltas', n) = Weight(n)
    <2> TAKE n \in open
    <2>1. n \in Namespace /\ Counter(n) + Bytes(deltas, n) = Weight(n)
      BY <1>2 DEF UsageIsExact
    <2>2. CASE n \in r.counted
      <3>1. usage'[n] = Counter(n) + Bytes(r.taken, n)
        BY <1>1, <2>1, <2>2
      <3>2. usage'[n] # None
        BY <1>4, <2>1, <3>1, Sizes
      <3>3. Counter(n)' = Counter(n) + Bytes(r.taken, n)
        BY <3>1, <3>2 DEF Counter
      <3> QED
        BY <1>4, <2>1, <3>3
    <2>3. CASE n \notin r.counted
      <3>1. \A d \in r.taken : d.ns # n
        BY <1>2, <2>3 DEF FoldsKeepTheirDeltas
      <3>2. Bytes(r.taken, n) = 0
        BY <3>1, BytesOfNone
      <3>3. Counter(n)' = Counter(n)
        BY <1>1, <2>1, <2>3 DEF Counter
      <3> QED
        BY <1>4, <2>1, <3>2, <3>3
    <2> QED
      BY <2>2, <2>3
  <1> HIDE DEF r
  <1> QED
    BY <1>1, <1>5, <1>6, <1>7, <1>8, <1>9, OneFolderMoves

LEMMA FailFoldKeeps ==
    ASSUME NInv, NEW f \in Folder, FailFold(f)
    PROVE NInv'
  <1>1. Folds(f, IdleFolder) /\ UNCHANGED <<open, deleting, stored, counters, writer>>
    BY DEF FailFold
  <1>2. /\ IdleFolder \in [taken : SUBSET Delta, counted : SUBSET Namespace]
        /\ IdleFolder.taken = {}
    BY DEF IdleFolder
  <1>3. /\ deltas' = deltas /\ usage' = usage
        /\ usage' \in [Namespace -> Int \cup {None}]
        /\ \A n \in Namespace \ open : usage'[n] = None
    BY <1>1 DEF counters, NInv, TypeOK
  <1>4. \A n \in open : Counter(n)' + Bytes(deltas', n) = Weight(n)
    BY <1>3 DEF NInv, UsageIsExact, Counter
  <1>5. \A g \in Folder \ {f} : folder[g].taken \subseteq deltas
    BY DEF NInv, FoldsKeepTheirDeltas
  <1> QED
    BY <1>1, <1>2, <1>3, <1>4, <1>5, OneFolderMoves

----------------------------------------------------------------------------
(* The theorems. *)

\* So every step keeps it.
LEMMA StepKeeps == NInv /\ [Next]_vars => NInv'
  <1> SUFFICES ASSUME NInv, [Next]_vars PROVE NInv'
    OBVIOUS
  <1>1. ASSUME NEW w \in Writer, Refuse(w) \/ FailWrite(w) PROVE NInv'
    BY <1>1, WriterEnds DEF Refuse, FailWrite
  <1>2. CASE UNCHANGED vars
    <2>1. /\ open' = open /\ deleting' = deleting /\ objects' = objects /\ part' = part
          /\ completed' = completed /\ usage' = usage /\ deltas' = deltas
          /\ writer' = writer /\ folder' = folder
      BY <1>2 DEF vars, stored, counters
    <2>2. TypeOK' /\ IsFiniteSet(deltas)' /\ FoldsKeepTheirDeltas'
      BY <2>1 DEF NInv, TypeOK, FoldsKeepTheirDeltas, Weight
    <2>3. WritersHaveSubjects' /\ OneHoldsTheTeam' /\ DeletedIsEmpty' /\ UsageIsExact'
      BY <2>1 DEF NInv, WritersHaveSubjects, OneHoldsTheTeam, TeamHolders, DeletedIsEmpty,
             UsageIsExact, Writing, Weight, Counter
    <2>4. (\A w \in Writer : writer[w].pc = "commit" => Promised(writer[w]))'
      BY <2>1 DEF NInv, Promised, Total, Weight, Parts, LeftOut, Growth
    <2>5. (Total + Parts(completed))' <= Limit
      BY <2>1 DEF NInv, Total, Weight, Parts
    <2> QED
      BY <2>2, <2>3, <2>4, <2>5 DEF NInv
  <1> QED
    BY <1>1, <1>2, WriteObjectKeeps, WritePartKeeps, LockTeamKeeps, EnforceQuotaKeeps,
       CommitObjectKeeps, CommitPartKeeps, CreateNamespaceKeeps, LockNamespaceKeeps,
       RemoveMultipartKeeps, DeleteObjectKeeps, DeleteNamespaceKeeps, FailDeleteKeeps,
       TakeDeltasKeeps, FoldUsageKeeps, FailFoldKeeps DEF Next

\* The invariant holds of every reachable state.
THEOREM QuotaInvariantHolds == Spec => []IInv
  <1>1. Init => NInv
    BY Initially
  <1>2. NInv /\ [Next]_vars => NInv'
    BY StepKeeps
  <1>3. NInv <=> IInv
    BY InNumbers
  <1> QED
    BY <1>1, <1>2, <1>3, PTL DEF Spec

\* Types; and nothing is left of a namespace that is gone.
THEOREM QuotaTypeCorrect == Spec => []TypeOK
  <1>1. IInv => TypeOK
    BY DEF IInv
  <1> QED
    BY <1>1, QuotaInvariantHolds, PTL

\* Counters and deltas (migration 0013, FoldUsage) say what is stored.
THEOREM UsageStaysExact == Spec => []UsageIsExact
  <1>1. IInv => UsageIsExact
    BY DEF IInv
  <1> QED
    BY <1>1, QuotaInvariantHolds, PTL

\* EnforceQuota keeps the team within its quota.
THEOREM QuotaIsKept == Spec => []WithinQuota
  <1>1. IInv => WithinQuota
    BY DEF IInv
  <1> QED
    BY <1>1, QuotaInvariantHolds, PTL

\* What is stored, objects and parts alike.
LEMMA StoredInNumbers ==
    TypeOK => SumFunction([n \in Namespace |-> Weight(n) + part[n]]) = Total + Parts({})
  <1> SUFFICES ASSUME TypeOK
               PROVE SumFunction([n \in Namespace |-> Weight(n) + part[n]]) = Total + Parts({})
    OBVIOUS
  <1> DEFINE v == [n \in Namespace |-> Weight(n)]
             h == [n \in Namespace |-> Weight(n) + part[n]]
  <1>1. \A n \in Namespace : v[n] \in Int /\ part[n] \in Int /\ h[n] = v[n] + part[n]
    BY WeightsAreNat, PartsAreNat DEF TypeOK
  <1>2. Namespace \in SUBSET Namespace
    OBVIOUS
  <1>3. SumFunctionOnSet(h, Namespace) = SumFunctionOnSet(v, Namespace) + SumFunctionOnSet(part, Namespace)
    <2> HIDE DEF v, h
    <2> QED BY <1>1, <1>2, Sizes, SumsAdd
  <1>4. SumFunctionOnSet(v, Namespace) = Total
    BY TotalIsNat DEF TypeOK
  <1>5. SumFunctionOnSet(part, Namespace) = Parts({})
    BY DEF Parts
  <1>6. SumFunction(h) = SumFunctionOnSet(h, Namespace)
    BY DEF SumFunction
  <1> HIDE DEF v
  <1> QED
    BY <1>3, <1>4, <1>5, <1>6

\* Whoever is refused does not fit.
LEMMA RefusedDoNotFit ==
    ASSUME NInv, NEW w \in Writer, Refuse(w)
    PROVE DoesNotFit(writer[w])
  <1> DEFINE r == writer[w]
             l == LeftOut(writer[w])
             g == Growth(writer[w])
             replaced == IF r.op = "part" THEN part[r.ns] ELSE objects[r.ns][r.key]
             assembled == IF r.op = "complete" THEN part[r.ns] ELSE 0
  <1>1. r.pc # "idle" /\ ~Fits(r)
    BY DEF Refuse
  <1>2. /\ TypeOK /\ r.ns \in Namespace /\ r.size \in Nat
        /\ r.op # "part" => r.key \in Key
    BY <1>1, WritersChange DEF NInv
  <1>3. part[r.ns] \in Nat /\ replaced \in Nat /\ assembled \in Nat
    BY <1>2, Sizes DEF TypeOK
  <1>4. g = r.size - replaced
    BY DEF Growth
  <1>5. Total \in Nat /\ Parts({}) \in Nat /\ Parts(l) \in Nat
    BY <1>2, TotalIsNat, PartsAreNat DEF TypeOK
  <1>6. Parts({}) = assembled + Parts(l)
    <2>1. CASE r.op = "complete"
      <3>1. l = {} \cup {r.ns}
        BY <2>1 DEF LeftOut
      <3>2. Parts({}) = part[r.ns] + Parts({} \cup {r.ns})
        BY <1>2, PartsLeftOut DEF TypeOK
      <3> QED
        BY <2>1, <3>1, <3>2
    <2>2. CASE r.op # "complete"
      BY <1>5, <2>2 DEF LeftOut
    <2> QED
      BY <2>1, <2>2
  <1>7. ~(Total + Parts(l) + g <= Limit)
    <2>1. TenantUsage(l) = Total + Parts(l)
      BY TenantUsageIsStored DEF NInv
    <2> QED
      BY <1>1, <2>1 DEF Fits
  <1>8. DoesNotFit(r) <=>
           SumFunction([n \in Namespace |-> Weight(n) + part[n]]) - replaced - assembled + r.size > Limit
    BY DEF DoesNotFit
  <1>9. SumFunction([n \in Namespace |-> Weight(n) + part[n]]) = Total + Parts({})
    BY <1>2, StoredInNumbers
  <1> DEFINE all == SumFunction([n \in Namespace |-> Weight(n) + part[n]])
  <1> HIDE DEF r, l, g, replaced, assembled, all
  <1>10. all - replaced - assembled + r.size > Limit
    <2>1. all = Total + Parts({})
      BY <1>9 DEF all
    <2> QED
      BY <1>2, <1>3, <1>4, <1>5, <1>6, <1>7, <2>1, QuotaAssumption
  <1> QED
    BY <1>8, <1>10 DEF all, r

\* EnforceQuota refuses only what does not fit: neither a fold nor a
\* completion that others see half done makes the team's usage look larger.
THEOREM RefusalsStayJust == Spec => RefusalsAreJust
  <1>1. NInv => [\A w \in Writer : Refuse(w) => DoesNotFit(writer[w])]_vars
    BY RefusedDoNotFit
  <1>2. NInv <=> IInv
    BY InNumbers
  <1> QED
    BY <1>1, <1>2, QuotaInvariantHolds, PTL DEF RefusalsAreJust

=============================================================================
