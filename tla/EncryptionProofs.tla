-------------------------- MODULE EncryptionProofs ---------------------------
(***************************************************************************)
(* Proofs of encryption at rest.  Of Keys, for any number of instances,    *)
(* keys, secrets and steps: a name means one key, and an instance that     *)
(* serves opens what is stored, provided the lists follow each other as    *)
(* README.md says (Rotation).  And of StagedFile, which shares no state    *)
(* with it, for segments and contents of any size: a staging file that is  *)
(* read to its end is what was written.                                    *)
(***************************************************************************)
EXTENDS Keys, SequencesExt, TLAPS

CONSTANTS
    Segment, Longest        \* StagedFile's

VARIABLES
    written, sealed, file, writer, harmed, opened       \* StagedFile's

SF == INSTANCE StagedFile


----------------------------------------------------------------------------
(* Lists. *)

\* The first key of a list is one of it.
LEMMA HeadOfList ==
    ASSUME Rotation, TypeOK, NEW i \in Instance, instance[i].list # <<>>
    PROVE Head(instance[i].list) \in Ids(i) /\ Ids(i) \subseteq Id
  <1>1. instance[i].list \in Range(Lists) \cup {<<>>}
    BY DEF TypeOK, Process
  <1>2. PICK n \in DOMAIN Lists : instance[i].list = Lists[n]
    BY <1>1 DEF Range
  <1>3. Lists[n] \in Seq(Id) /\ Lists[n] # <<>>
    BY <1>2 DEF Rotation
  <1>4. Head(Lists[n]) = Lists[n][1] /\ 1 \in DOMAIN Lists[n]
    BY <1>3
  <1>5. Range(Lists[n]) \subseteq Id
    BY <1>3 DEF Range
  <1> QED
    BY <1>2, <1>4, <1>5 DEF Ids, Range

\* What one instance that runs seals under, another that runs holds.
LEMMA ListsOverlap ==
    ASSUME Rotation, TypeOK, RunsInStep, NEW i \in Instance, NEW j \in Instance,
           instance[i].pc # "down", instance[j].pc # "down",
           instance[i].list # <<>>, instance[j].list # <<>>
    PROVE Head(instance[i].list) \in Ids(j)
  <1>1. PICK m \in {rollout - 1, rollout} \cap DOMAIN Lists : instance[i].list = Lists[m]
    BY DEF RunsInStep
  <1>2. PICK n \in {rollout - 1, rollout} \cap DOMAIN Lists : instance[j].list = Lists[n]
    BY DEF RunsInStep
  <1>3. m \in {n - 1, n, n + 1}
    BY DEF TypeOK, Rotation
  <1> QED
    BY <1>1, <1>2, <1>3 DEF Rotation, Ids

----------------------------------------------------------------------------
(* Types. *)

\* Steps that change one instance only.
LEMMA ProcessUpdated ==
    ASSUME TypeOK, NEW i \in Instance, NEW p \in Process, Becomes(i, p),
           p.wrong \subseteq Range(p.list)
    PROVE /\ instance' \in [Instance -> Process]
          /\ (\A j \in Instance : instance[j].wrong \subseteq Ids(j))'
  BY DEF TypeOK, Becomes, Ids

\* The same of one that goes on, and changes in nothing else.
LEMMA ProcessGoes ==
    ASSUME TypeOK, NEW i \in Instance, NEW pc, Goes(i, pc),
           pc \in {"down", "record", "compare", "stored", "list", "seal", "serving"}
    PROVE /\ instance' \in [Instance -> Process]
          /\ (\A j \in Instance : instance[j].wrong \subseteq Ids(j))'
  BY DEF TypeOK, Goes, Ids, Process

LEMMA DownTyped == Down \in Process /\ Down.wrong \subseteq Range(Down.list)
  <1>1. [s \in {} |-> ""] \in [{} -> Id \cup {"plain"}]
    OBVIOUS
  <1> QED
    BY <1>1 DEF Down, Process, Listed

\* Two states of an instance differ only in the secrets it has listed.
Same(p, q) ==
    /\ p.pc = q.pc /\ p.list = q.list /\ p.wrong = q.wrong
    /\ p.writing = q.writing /\ p.minting = q.minting

\* Those who have listed a secret that changes know that it did.
LEMMA ChangedTyped ==
    ASSUME TypeOK, NEW s \in Secret
    PROVE /\ Changed(s) \in [Instance -> Process]
          /\ \A j \in Instance :
                /\ Same(Changed(s)[j], instance[j])
                /\ Changed(s)[j].todo = instance[j].todo
                /\ Changed(s)[j].stale = IF s \in DOMAIN instance[j].todo THEN instance[j].stale \cup {s}
                                         ELSE instance[j].stale
  BY DEF TypeOK, Changed, Process, Same

\* A secret that is done is not on the list any more.
LEMMA DoneTyped ==
    ASSUME NEW p \in Process, NEW s
    PROVE /\ Done(p, s) \in Process
          /\ Same(Done(p, s), p) /\ Done(p, s).stale = p.stale
          /\ DOMAIN Done(p, s).todo = DOMAIN p.todo \ {s}
          /\ \A t \in DOMAIN p.todo \ {s} : Done(p, s).todo[t] = p.todo[t]
  <1> DEFINE rest == Restrict(p.todo, DOMAIN p.todo \ {s})
  <1>1. PICK S \in SUBSET Secret : p.todo \in [S -> Id \cup {"plain"}]
    BY DEF Process, Listed
  <1>2. rest \in [S \ {s} -> Id \cup {"plain"}] /\ \A t \in DOMAIN p.todo \ {s} : rest[t] = p.todo[t]
    BY <1>1 DEF Restrict
  <1>3. rest \in Listed /\ DOMAIN rest = DOMAIN p.todo \ {s}
    BY <1>1, <1>2 DEF Listed
  <1>4. Done(p, s) = [p EXCEPT !.todo = rest]
    BY DEF Done
  <1> HIDE DEF rest
  <1>5. /\ Done(p, s) \in Process /\ Same(Done(p, s), p) /\ Done(p, s).stale = p.stale
        /\ Done(p, s).todo = rest
    BY <1>3, <1>4 DEF Process, Same
  <1> QED
    BY <1>2, <1>3, <1>5

\* A secret is sealed again by who has listed it.
LEMMA ResealedTyped ==
    ASSUME TypeOK, NEW i \in Instance, NEW s \in Secret,
           instance' = [Changed(s) EXCEPT ![i] = Done(@, s)]
    PROVE /\ instance' \in [Instance -> Process]
          /\ \A j \in Instance :
                /\ Same(instance'[j], instance[j])
                /\ DOMAIN instance'[j].todo = DOMAIN instance[j].todo \ (IF j = i THEN {s} ELSE {})
                /\ \A t \in DOMAIN instance'[j].todo : instance'[j].todo[t] = instance[j].todo[t]
                /\ instance'[j].stale = IF s \in DOMAIN instance[j].todo THEN instance[j].stale \cup {s}
                                        ELSE instance[j].stale
  <1> DEFINE c == Changed(s)[i]
             d == Done(c, s)
  <1>1. /\ Changed(s) \in [Instance -> Process]
        /\ c \in Process /\ Same(c, instance[i]) /\ c.todo = instance[i].todo
        /\ c.stale = IF s \in DOMAIN instance[i].todo THEN instance[i].stale \cup {s}
                     ELSE instance[i].stale
    BY ChangedTyped
  <1>2. /\ d \in Process /\ Same(d, c) /\ d.stale = c.stale
        /\ DOMAIN d.todo = DOMAIN c.todo \ {s}
        /\ \A t \in DOMAIN c.todo \ {s} : d.todo[t] = c.todo[t]
    <2> HIDE DEF c
    <2> QED
      BY <1>1, DoneTyped
  <1>3. instance' = [Changed(s) EXCEPT ![i] = d]
    OBVIOUS
  <1> HIDE DEF c, d
  <1>4. /\ instance' \in [Instance -> Process]
        /\ instance'[i] = d
        /\ \A j \in Instance \ {i} : instance'[j] = Changed(s)[j]
    BY <1>1, <1>2, <1>3
  <1>5. Same(d, instance[i])
    BY <1>1, <1>2 DEF Same
  <1>6. ASSUME NEW j \in Instance \ {i}
        PROVE /\ Same(instance'[j], instance[j])
              /\ instance'[j].todo = instance[j].todo
              /\ instance'[j].stale = IF s \in DOMAIN instance[j].todo THEN instance[j].stale \cup {s}
                                      ELSE instance[j].stale
    BY <1>4, ChangedTyped
  <1>7. \A t \in DOMAIN d.todo : d.todo[t] = instance[i].todo[t]
    BY <1>1, <1>2
  <1> QED
    BY <1>1, <1>2, <1>4, <1>5, <1>6, <1>7

LEMMA KeysTyped == ASSUME TypeOK, NEW i \in Instance, Ids(i) \subseteq Id PROVE Keys(i) \subseteq AnyKey
  <1> SUFFICES ASSUME NEW k \in Keys(i) PROVE k \in AnyKey
    OBVIOUS
  <1>1. PICK id \in Ids(i) : k = KeyNamed(id, id \in instance[i].wrong)
    BY DEF Keys
  <1>2. (id \in instance[i].wrong) \in BOOLEAN /\ id \in Id
    OBVIOUS
  <1>3. PICK w \in BOOLEAN : k = KeyNamed(id, w)
    BY <1>1, <1>2, Zenon
  <1> QED
    BY <1>2, <1>3 DEF AnyKey

LEMMA IdsTyped == ASSUME Rotation, TypeOK, NEW i \in Instance PROVE Ids(i) \subseteq Id
  <1>1. CASE instance[i].list = <<>>
    BY <1>1 DEF Ids, Range
  <1> QED
    BY <1>1, HeadOfList

\* Every step keeps the types.
LEMMA TypeKept == ASSUME Rotation, TypeOK, RunsInStep, [Next]_vars PROVE TypeOK'
  <1> USE DEF TypeOK
  <1>1. CASE RollOut
    BY <1>1 DEF RollOut, Ids, Rotation
  <1>2. CASE vars' = vars
    BY <1>2 DEF vars, Ids
  <1>3. ASSUME NEW i \in Instance, NEW n \in DOMAIN Lists, NEW wrong \in SUBSET Mistakable, Start(i, n, wrong)
        PROVE TypeOK'
    <2> DEFINE p == [Down EXCEPT !.pc = IF Lists[n] = <<>> THEN "stored" ELSE "record",
                                 !.list = Lists[n], !.wrong = wrong]
    <2>1. Lists[n] \in Range(Lists) /\ wrong \subseteq Id
      BY <1>3 DEF Start, Range, Id
    <2>2. p \in Process /\ p.wrong \subseteq Range(p.list)
      BY <2>1, <1>3, DownTyped DEF Down, Process, Start
    <2> QED
      BY <2>2, <1>3, ProcessUpdated DEF Start
  <1>4. ASSUME NEW i \in Instance, Stop(i) PROVE TypeOK'
    BY <1>4, DownTyped, ProcessUpdated DEF Stop
  <1>5. ASSUME NEW i \in Instance, RecordKeys(i) PROVE TypeOK'
    BY <1>5, ProcessGoes, KeysTyped, IdsTyped DEF RecordKeys, Unrecorded
  <1>6. ASSUME NEW i \in Instance, CompareKeys(i) PROVE TypeOK'
    BY <1>6, ProcessGoes, DownTyped, ProcessUpdated DEF CompareKeys
  <1>7. ASSUME NEW i \in Instance, CheckStored(i) PROVE TypeOK'
    BY <1>7, ProcessGoes, DownTyped, ProcessUpdated DEF CheckStored
  <1>8. ASSUME NEW i \in Instance, ListSecrets(i) PROVE TypeOK'
    <2> DEFINE p == [instance[i] EXCEPT !.pc = "seal", !.todo = [s \in ToSeal(i) |-> secrets[s]]]
    <2>1. [s \in ToSeal(i) |-> secrets[s]] \in [ToSeal(i) -> Id \cup {"plain"}]
      BY DEF ToSeal
    <2>2. ToSeal(i) \in SUBSET Secret
      BY DEF ToSeal
    <2>3. [s \in ToSeal(i) |-> secrets[s]] \in Listed
      BY <2>1, <2>2 DEF Listed
    <2>4. p \in Process /\ p.wrong \subseteq Range(p.list)
      BY <2>3, SMTT(20), ZenonT(40) DEF Process, Ids
    <2> QED
      BY <1>8, <2>4, ProcessGoes, DownTyped, ProcessUpdated DEF ListSecrets
  <1>9. ASSUME NEW i \in Instance, NEW s \in Secret, SealSecret(i, s) PROVE TypeOK'
    <2>1. CASE Becomes(i, Down) /\ UNCHANGED secrets
      BY <1>9, <2>1, DownTyped, ProcessUpdated DEF SealSecret
    <2>2. CASE Becomes(i, Done(instance[i], s)) /\ UNCHANGED secrets
      <3>1. Done(instance[i], s) \in Process /\ Done(instance[i], s).wrong \subseteq Range(Done(instance[i], s).list)
        BY DoneTyped DEF Ids, Same
      <3> QED
        BY <1>9, <2>2, <3>1, ProcessUpdated DEF SealSecret
    <2>3. CASE /\ secrets' = [secrets EXCEPT ![s] = Head(instance[i].list)]
               /\ instance' = [Changed(s) EXCEPT ![i] = Done(@, s)]
      <3>1. instance[i].list # <<>>
        BY <1>9 DEF SealSecret, RunsInStep
      <3>2. secrets' \in [Secret -> Id \cup {"absent", "plain"}]
        BY <2>3, <3>1, HeadOfList
      <3>3. /\ instance' \in [Instance -> Process]
            /\ \A j \in Instance : instance'[j].wrong = instance[j].wrong /\ instance'[j].list = instance[j].list
        BY <2>3, ResealedTyped DEF Same
      <3>4. (\A j \in Instance : instance[j].wrong \subseteq Ids(j))'
        BY <3>3 DEF Ids
      <3> QED
        BY <1>9, <3>2, <3>3, <3>4 DEF SealSecret
    <2> QED
      BY <1>9, <2>1, <2>2, <2>3 DEF SealSecret
  <1>10. ASSUME NEW i \in Instance, Serve(i) PROVE TypeOK'
    <2> DEFINE p == [instance[i] EXCEPT !.pc = "serving", !.stale = {}]
    <2>1. p \in Process /\ p.wrong \subseteq Range(p.list)
      <3>1. instance[i] \in Process /\ instance[i].wrong \subseteq Range(instance[i].list)
        BY DEF Ids
      <3>2. p \in Process
        BY <3>1 DEF Process
      <3>3. p.wrong = instance[i].wrong /\ p.list = instance[i].list
        BY <3>1 DEF Process
      <3> QED
        BY <3>1, <3>2, <3>3
    <2>2. Becomes(i, p) /\ UNCHANGED <<rollout, recorded, inUse, secrets>>
      BY <1>10 DEF Serve
    <2> HIDE DEF p
    <2> QED
      BY <2>1, <2>2, ProcessUpdated
  <1>11. ASSUME NEW i \in Instance, WriteXorb(i) PROVE TypeOK'
    <2> DEFINE p == [instance[i] EXCEPT !.writing = TRUE]
    <2>1. p \in Process /\ p.wrong \subseteq Range(p.list)
      BY DEF Process, Ids
    <2>2. Becomes(i, p) /\ UNCHANGED <<rollout, recorded, inUse, secrets>>
      BY <1>11 DEF WriteXorb
    <2> HIDE DEF p
    <2> QED
      BY <2>1, <2>2, ProcessUpdated
  <1>12. ASSUME NEW i \in Instance, CommitXorb(i) PROVE TypeOK'
    <2>1. inUse' \subseteq AnyKey \cup {Clear}
      BY <1>12, KeysTyped, IdsTyped DEF CommitXorb
    <2>2. /\ instance' \in [Instance -> Process]
          /\ (\A j \in Instance : instance[j].wrong \subseteq Ids(j))'
      BY <1>12, SMTT(20), ZenonT(40) DEF CommitXorb, Becomes, Process, Ids
    <2> QED
      BY <1>12, <2>1, <2>2 DEF CommitXorb
  <1>13. ASSUME NEW i \in Instance, NEW s \in Secret, Mint(i, s) PROVE TypeOK'
    BY <1>13 DEF Mint, Becomes, Process, Ids
  <1>14. ASSUME NEW i \in Instance, StoreSecret(i) PROVE TypeOK'
    <2>1. instance[i].minting \in Secret /\ instance[i].list # <<>>
      BY <1>14 DEF StoreSecret, RunsInStep, Process
    <2>2. secrets' \in [Secret -> Id \cup {"absent", "plain"}]
      BY <1>14, <2>1, HeadOfList DEF StoreSecret
    <2>3. /\ instance' \in [Instance -> Process]
          /\ (\A j \in Instance : instance[j].wrong \subseteq Ids(j))'
      BY <1>14 DEF StoreSecret, Becomes, Process, Ids
    <2> QED
      BY <1>14, <2>2, <2>3 DEF StoreSecret
  <1>15. ASSUME NEW k \in inUse, Collect(k) PROVE TypeOK'
    BY <1>15 DEF Collect, Ids
  <1>16. ASSUME NEW s \in Secret, Revoke(s) PROVE TypeOK'
    BY <1>16, ChangedTyped DEF Revoke, Ids, Same
  <1> QED
    BY <1>1, <1>2, <1>3, <1>4, <1>5, <1>6, <1>7, <1>8, <1>9, <1>10, <1>11, <1>12, <1>13, <1>14,
       <1>15, <1>16 DEF Next
----------------------------------------------------------------------------
(* The invariant. *)

\* Every step keeps RunsInStep.
LEMMA RunsInStepKept == ASSUME Rotation, TypeOK, RunsInStep, [Next]_vars PROVE RunsInStep'
  <1> USE DEF RunsInStep
  <1>1. CASE RollOut
    BY <1>1 DEF RollOut, TypeOK, Process
  <1>2. CASE vars' = vars
    BY <1>2 DEF vars, TypeOK, Process
  <1>3. ASSUME NEW i \in Instance, NEW n \in DOMAIN Lists, NEW wrong \in SUBSET Mistakable, Start(i, n, wrong) PROVE RunsInStep'
    BY <1>3 DEF Start, Down, Becomes, TypeOK, Process
  <1>4. ASSUME NEW i \in Instance, Stop(i) PROVE RunsInStep'
    BY <1>4 DEF Stop, Down, Becomes, TypeOK, Process
  <1>5. ASSUME NEW i \in Instance, RecordKeys(i) PROVE RunsInStep'
    BY <1>5 DEF RecordKeys, Goes, TypeOK, Process
  <1>6. ASSUME NEW i \in Instance, CompareKeys(i) PROVE RunsInStep'
    BY <1>6 DEF CompareKeys, Goes, Down, Becomes, TypeOK, Process
  <1>7. ASSUME NEW i \in Instance, CheckStored(i) PROVE RunsInStep'
    BY <1>7 DEF CheckStored, Goes, Down, Becomes, TypeOK, Process
  <1>8. ASSUME NEW i \in Instance, ListSecrets(i) PROVE RunsInStep'
    <2>1. CASE Becomes(i, Down)
      BY <1>8, <2>1 DEF ListSecrets, Down, Becomes, TypeOK, Process
    <2>2. CASE Goes(i, "serving")
      BY <1>8, <2>2 DEF ListSecrets, Goes, TypeOK, Process
    <2>3. ASSUME NEW todo, instance[i].list # <<>>,
                 Becomes(i, [instance[i] EXCEPT !.pc = "seal", !.todo = todo])
          PROVE RunsInStep'
      BY <1>8, <2>3 DEF ListSecrets, Becomes, TypeOK, Process
    <2> QED
      BY <1>8, <2>1, <2>2, <2>3 DEF ListSecrets
  <1>9. ASSUME NEW i \in Instance, NEW s \in Secret, SealSecret(i, s) PROVE RunsInStep'
    <2>1. CASE Becomes(i, Down)
      BY <1>9, <2>1 DEF SealSecret, Down, Becomes, TypeOK, Process
    <2>2. ASSUME \A j \in Instance : Same(instance'[j], instance[j]),
                 \A j \in Instance \ {i} : /\ DOMAIN instance'[j].todo = DOMAIN instance[j].todo
                                           /\ DOMAIN instance[j].todo = {} => instance'[j].stale = instance[j].stale
          PROVE RunsInStep'
      <3>1. instance[i].pc = "seal" /\ rollout' = rollout
        BY <1>9 DEF SealSecret
      <3>2. ASSUME NEW j \in Instance
            PROVE /\ instance'[j].pc = instance[j].pc /\ instance'[j].list = instance[j].list
                  /\ instance'[j].writing = instance[j].writing
                  /\ instance'[j].minting = instance[j].minting
                  /\ instance'[j].pc # "seal" =>
                        DOMAIN instance'[j].todo = {} /\ instance'[j].stale = {}
        <4>1. Same(instance'[j], instance[j])
          BY <2>2
        <4>2. CASE j = i
          BY <3>1, <4>1, <4>2 DEF Same
        <4>3. CASE j # i
          BY <2>2, <4>1, <4>3 DEF Same
        <4> QED
          BY <4>2, <4>3
      <3> QED
        BY <3>1, <3>2
    <2>3. CASE Becomes(i, Done(instance[i], s))
      <3>1. /\ \A j \in Instance : Same(instance'[j], instance[j])
            /\ \A j \in Instance \ {i} : instance'[j] = instance[j]
        BY <2>3, DoneTyped DEF Becomes, TypeOK, Same
      <3> QED
        BY <2>2, <3>1
    <2>4. CASE instance' = [Changed(s) EXCEPT ![i] = Done(@, s)]
      <3>1. \A j \in Instance : Same(instance'[j], instance[j])
        BY <2>4, ResealedTyped
      <3>2. \A j \in Instance \ {i} : /\ DOMAIN instance'[j].todo = DOMAIN instance[j].todo
                                      /\ DOMAIN instance[j].todo = {} => instance'[j].stale = instance[j].stale
        <4> SUFFICES ASSUME NEW j \in Instance \ {i}
                     PROVE /\ DOMAIN instance'[j].todo = DOMAIN instance[j].todo
                           /\ DOMAIN instance[j].todo = {} => instance'[j].stale = instance[j].stale
          OBVIOUS
        <4> QED
          BY <2>4, ResealedTyped
      <3> QED
        BY <2>2, <3>1, <3>2
    <2> QED
      BY <1>9, <2>1, <2>3, <2>4 DEF SealSecret
  <1>10. ASSUME NEW i \in Instance, Serve(i) PROVE RunsInStep'
    BY <1>10 DEF Serve, Becomes, TypeOK, Process
  <1>11. ASSUME NEW i \in Instance, WriteXorb(i) PROVE RunsInStep'
    BY <1>11 DEF WriteXorb, Becomes, TypeOK, Process
  <1>12. ASSUME NEW i \in Instance, CommitXorb(i) PROVE RunsInStep'
    BY <1>12 DEF CommitXorb, Becomes, TypeOK, Process
  <1>13. ASSUME NEW i \in Instance, NEW s \in Secret, Mint(i, s) PROVE RunsInStep'
    BY <1>13 DEF Mint, Becomes, TypeOK, Process
  <1>14. ASSUME NEW i \in Instance, StoreSecret(i) PROVE RunsInStep'
    BY <1>14 DEF StoreSecret, Becomes, TypeOK, Process
  <1>15. ASSUME NEW k \in inUse, Collect(k) PROVE RunsInStep'
    BY <1>15 DEF Collect, TypeOK, Process
  <1>16. ASSUME NEW s \in Secret, Revoke(s) PROVE RunsInStep'
    BY <1>16 DEF Revoke, Changed, TypeOK, Process
  <1> QED
    BY <1>1, <1>2, <1>3, <1>4, <1>5, <1>6, <1>7, <1>8, <1>9, <1>10, <1>11, <1>12, <1>13, <1>14, <1>15, <1>16 DEF Next
\* How an instance goes on in a step: it goes down, starts, or takes the next
\* of its checks with the list it has.
Passes(j, from, to) == instance[j].pc = from /\ instance'[j].pc = to

Advances(j) ==
    \/ instance'[j].pc = "down"
    \/ instance'[j].pc = "record"
    \/ Passes(j, "down", "stored") /\ instance'[j].list = <<>>
    \/ /\ instance'[j].list = instance[j].list /\ instance'[j].wrong = instance[j].wrong
       /\ \/ instance'[j].pc = instance[j].pc
          \/ Passes(j, "record", "compare")
          \/ Passes(j, "compare", "stored") /\ Keys(j) \subseteq recorded
          \/ Passes(j, "stored", "list") /\ {k.id : k \in inUse \ {Clear}} \subseteq Ids(j) /\ inUse' = inUse
          \/ Passes(j, "list", "seal")
          \/ Passes(j, "list", "serving") /\ instance[j].list = <<>>
          \/ Passes(j, "seal", "serving")

LEMMA StepAdvances ==
    ASSUME TypeOK, RunsInStep, [Next]_vars, NEW j \in Instance
    PROVE Advances(j)
  <1>1. CASE RollOut
    BY <1>1 DEF RollOut, TypeOK, Process, Advances, Passes
  <1>2. CASE vars' = vars
    BY <1>2 DEF vars, TypeOK, Process, Advances, Passes
  <1>3. ASSUME NEW i \in Instance, NEW n \in DOMAIN Lists, NEW wrong \in SUBSET Mistakable, Start(i, n, wrong) PROVE Advances(j)
    BY <1>3 DEF Start, Down, Becomes, TypeOK, Process, Advances, Passes
  <1>4. ASSUME NEW i \in Instance, Stop(i) PROVE Advances(j)
    BY <1>4 DEF Stop, Down, Becomes, TypeOK, Process, Advances, Passes
  <1>5. ASSUME NEW i \in Instance, RecordKeys(i) PROVE Advances(j)
    BY <1>5 DEF RecordKeys, Goes, TypeOK, Process, Advances, Passes
  <1>6. ASSUME NEW i \in Instance, CompareKeys(i) PROVE Advances(j)
    BY <1>6 DEF CompareKeys, Goes, Down, Becomes, TypeOK, Process, Advances, Passes
  <1>7. ASSUME NEW i \in Instance, CheckStored(i) PROVE Advances(j)
    BY <1>7 DEF CheckStored, Goes, Down, Becomes, TypeOK, Process, Advances, Passes
  <1>8. ASSUME NEW i \in Instance, ListSecrets(i) PROVE Advances(j)
    <2>1. CASE Becomes(i, Down)
      BY <2>1 DEF Becomes, Down, TypeOK, Advances, Passes
    <2>2. CASE Goes(i, "serving") /\ instance[i].list = <<>>
      BY <1>8, <2>2 DEF ListSecrets, Goes, TypeOK, Process, Advances, Passes
    <2>3. ASSUME NEW todo, Becomes(i, [instance[i] EXCEPT !.pc = "seal", !.todo = todo])
          PROVE Advances(j)
      BY <1>8, <2>3 DEF ListSecrets, Becomes, TypeOK, Process, Advances, Passes
    <2> QED
      BY <1>8, <2>1, <2>2, <2>3 DEF ListSecrets
  <1>9. ASSUME NEW i \in Instance, NEW s \in Secret, SealSecret(i, s) PROVE Advances(j)
    <2>1. CASE Becomes(i, Down)
      BY <2>1 DEF Becomes, Down, TypeOK, Advances, Passes
    <2>2. CASE Becomes(i, Done(instance[i], s))
      BY <2>2, DoneTyped DEF Becomes, TypeOK, Same, Advances
    <2>3. CASE instance' = [Changed(s) EXCEPT ![i] = Done(@, s)]
      BY <2>3, ResealedTyped DEF Same, Advances
    <2> QED
      BY <1>9, <2>1, <2>2, <2>3 DEF SealSecret
  <1>10. ASSUME NEW i \in Instance, Serve(i) PROVE Advances(j)
    BY <1>10 DEF Serve, Becomes, TypeOK, Process, Advances, Passes
  <1>11. ASSUME NEW i \in Instance, WriteXorb(i) PROVE Advances(j)
    BY <1>11 DEF WriteXorb, Becomes, TypeOK, Process, Advances, Passes
  <1>12. ASSUME NEW i \in Instance, CommitXorb(i) PROVE Advances(j)
    BY <1>12 DEF CommitXorb, Becomes, TypeOK, Process, Advances, Passes
  <1>13. ASSUME NEW i \in Instance, NEW s \in Secret, Mint(i, s) PROVE Advances(j)
    BY <1>13 DEF Mint, Becomes, TypeOK, Process, Advances, Passes
  <1>14. ASSUME NEW i \in Instance, StoreSecret(i) PROVE Advances(j)
    BY <1>14 DEF StoreSecret, Becomes, TypeOK, Process, Advances, Passes
  <1>15. ASSUME NEW k \in inUse, Collect(k) PROVE Advances(j)
    BY <1>15 DEF Collect, TypeOK, Process, Advances, Passes
  <1>16. ASSUME NEW s \in Secret, Revoke(s) PROVE Advances(j)
    BY <1>16, ChangedTyped DEF Revoke, Same, Advances
  <1> QED
    BY <1>1, <1>2, <1>3, <1>4, <1>5, <1>6, <1>7, <1>8, <1>9, <1>10, <1>11, <1>12, <1>13, <1>14, <1>15, <1>16 DEF Next

\* A key is recorded only where its name has none yet.
LEMMA StepRecords ==
    ASSUME [Next]_vars
    PROVE recorded' = recorded \/ \E i \in Instance : recorded' = recorded \cup Unrecorded(i)
  BY DEF Next, vars, RollOut, Start, Stop, RecordKeys, CompareKeys, CheckStored, ListSecrets,
     SealSecret, Serve, WriteXorb, CommitXorb, Mint, StoreSecret, Collect, Revoke

\* A xorb is sealed under the current key of an instance that serves.
LEMMA StepSeals ==
    ASSUME [Next]_vars
    PROVE \/ inUse' \subseteq inUse \cup {Clear}
          \/ \E i \in Instance : \E k \in Keys(i) :
                instance[i].writing /\ IsCurrent(i, k.id) /\ inUse' = inUse \cup {k}
  BY DEF Next, vars, RollOut, Start, Stop, RecordKeys, CompareKeys, CheckStored, ListSecrets,
     SealSecret, Serve, WriteXorb, CommitXorb, Mint, StoreSecret, Collect, Revoke

\* An instance has the same keys as long as its list and its mistakes are the same.
LEMMA SameKeys ==
    ASSUME NEW i, instance'[i].list = instance[i].list, instance'[i].wrong = instance[i].wrong
    PROVE Keys(i)' = Keys(i) /\ Ids(i)' = Ids(i)
  BY DEF Keys, Ids

\* An instance has one key under each name.
LEMMA OneKeyEach ==
    ASSUME NEW i, NEW k \in Keys(i), NEW l \in Keys(i), k.id = l.id
    PROVE k = l /\ k.id \in Ids(i)
  <1>1. PICK id \in Ids(i) : k = KeyNamed(id, id \in instance[i].wrong)
    BY DEF Keys
  <1>2. PICK jd \in Ids(i) : l = KeyNamed(jd, jd \in instance[i].wrong)
    BY DEF Keys
  <1>3. k.id = id /\ l.id = jd
    BY <1>1, <1>2 DEF KeyNamed
  <1> QED
    BY <1>1, <1>2, <1>3

LEMMA KeyOfEachId ==
    ASSUME NEW i, NEW id \in Ids(i)
    PROVE \E k \in Keys(i) : k.id = id
  <1>1. KeyNamed(id, id \in instance[i].wrong) \in Keys(i)
    BY DEF Keys
  <1>2. KeyNamed(id, id \in instance[i].wrong).id = id
    BY DEF KeyNamed
  <1> QED
    BY <1>1, <1>2

\* Every step keeps a name to one key.
LEMMA RecordedKept ==
    ASSUME TypeOK, KeysOnRecord, [Next]_vars
    PROVE (\A k, l \in recorded : k.id = l.id => k = l)' /\ recorded \subseteq recorded'
  <1>1. CASE recorded' = recorded
    BY <1>1 DEF KeysOnRecord
  <1>2. ASSUME NEW i \in Instance, recorded' = recorded \cup Unrecorded(i)
        PROVE (\A k, l \in recorded : k.id = l.id => k = l)'
    BY <1>2, OneKeyEach DEF KeysOnRecord, Unrecorded
  <1> QED
    BY <1>1, <1>2, StepRecords

LEMMA ComparedKeysKept ==
    ASSUME TypeOK, RunsInStep, KeysOnRecord, ComparedKeys, [Next]_vars
    PROVE ComparedKeys'
  <1> SUFFICES ASSUME NEW j \in Instance, instance'[j].pc \in {"stored", "list", "seal", "serving"}
               PROVE Keys(j)' \subseteq recorded'
    BY DEF ComparedKeys
  <1>1. CASE instance'[j].list = <<>>
    BY <1>1 DEF Keys, Ids, Range
  <1>2. CASE instance'[j].list = instance[j].list /\ instance'[j].wrong = instance[j].wrong
    <2>1. Keys(j)' = Keys(j) /\ recorded \subseteq recorded'
      BY <1>2, SameKeys, RecordedKept
    <2>2. CASE Keys(j) \subseteq recorded
      BY <2>1, <2>2
    <2>3. CASE ~(Keys(j) \subseteq recorded)
      <3>1. instance[j].pc \notin {"stored", "list", "seal", "serving"}
        BY <2>3 DEF ComparedKeys
      <3> QED
        BY <1>1, <2>3, <3>1, StepAdvances DEF Advances, Passes
    <2> QED
      BY <2>2, <2>3
  <1> QED
    BY <1>1, <1>2, StepAdvances DEF Advances, Passes

LEMMA KeysOnRecordKept ==
    ASSUME TypeOK, RunsInStep, KeysOnRecord, ComparedKeys, [Next]_vars
    PROVE KeysOnRecord'
  <1>1. \A i \in Instance : instance'[i].pc = "serving" => Keys(i)' \subseteq recorded'
    BY ComparedKeysKept DEF ComparedKeys
  <1>2. inUse' \ {Clear} \subseteq recorded'
    <2>1. ASSUME NEW i \in Instance, instance[i].writing PROVE Keys(i) \subseteq recorded
      BY <2>1 DEF RunsInStep, ComparedKeys
    <2> QED
      BY <2>1, StepSeals, RecordedKept DEF KeysOnRecord
  <1> QED
    BY <1>1, <1>2, RecordedKept DEF KeysOnRecord

LEMMA RecordedIsHeld ==
    ASSUME KeysOnRecord, NEW j \in Instance, Keys(j) \subseteq recorded,
           NEW k \in recorded, k.id \in Ids(j)
    PROVE k \in Keys(j)
  BY KeyOfEachId DEF KeysOnRecord

\* Who is past the check of what is stored opens what others seal meanwhile.
LEMMA OpensContentKept ==
    ASSUME Rotation, TypeOK, RunsInStep, KeysOnRecord, ComparedKeys, OpensContent, [Next]_vars
    PROVE OpensContent'
  <1> SUFFICES ASSUME NEW j \in Instance, instance'[j].pc \in {"list", "seal", "serving"},
                      instance'[j].list # <<>>
               PROVE inUse' \ {Clear} \subseteq Keys(j)'
    BY DEF OpensContent
  <1>1. /\ instance'[j].list = instance[j].list /\ instance'[j].wrong = instance[j].wrong
        /\ \/ instance[j].pc \in {"list", "seal", "serving"}
           \/ /\ instance[j].pc = "stored" /\ inUse' = inUse
              /\ {k.id : k \in inUse \ {Clear}} \subseteq Ids(j)
    BY StepAdvances DEF Advances, Passes
  <1>2. Keys(j)' = Keys(j)
    BY <1>1, SameKeys
  <1>3. Keys(j) \subseteq recorded
    BY <1>1 DEF ComparedKeys
  <1>4. CASE instance[j].pc \in {"list", "seal", "serving"}
    <2>1. inUse \ {Clear} \subseteq Keys(j)
      BY <1>1, <1>4 DEF OpensContent
    <2>2. ASSUME NEW i \in Instance, NEW k \in Keys(i), instance[i].writing, IsCurrent(i, k.id)
          PROVE k \in Keys(j)
      <3>1. instance[i].pc = "serving" /\ instance[i].list # <<>> /\ k.id = Head(instance[i].list)
        BY <2>2 DEF RunsInStep, IsCurrent
      <3>2. k.id \in Ids(j)
        BY <1>1, <1>4, <3>1, ListsOverlap
      <3>3. k \in recorded
        BY <3>1 DEF ComparedKeys
      <3> QED
        BY <1>3, <3>2, <3>3, RecordedIsHeld
    <2> QED
      BY <1>2, <2>1, <2>2, StepSeals
  <1>5. CASE /\ instance[j].pc = "stored" /\ inUse' = inUse
             /\ {k.id : k \in inUse \ {Clear}} \subseteq Ids(j)
    <2> SUFFICES ASSUME NEW k \in inUse \ {Clear} PROVE k \in Keys(j)
      BY <1>2, <1>5
    <2>1. k \in recorded /\ k.id \in Ids(j)
      BY <1>5 DEF KeysOnRecord
    <2> QED
      BY <1>3, <2>1, RecordedIsHeld
  <1> QED
    BY <1>1, <1>4, <1>5

\* Who has listed a secret that has not changed since knows that it is there.
LEMMA ListedIsThere ==
    ASSUME Rotation, TypeOK, RunsInStep, OpensSecrets, NEW i \in Instance, NEW s \in Secret,
           instance[i].pc = "seal", s \in DOMAIN instance[i].todo \ instance[i].stale
    PROVE secrets[s] # "absent"
  <1>1. secrets[s] = instance[i].todo[s]
    BY DEF RunsInStep, OpensSecrets, Knows
  <1>2. instance[i].todo \in Listed
    BY DEF TypeOK, Process
  <1>3. PICK S \in SUBSET Secret : instance[i].todo \in [S -> Id \cup {"plain"}]
    BY <1>2 DEF Listed
  <1> QED
    BY <1>1, <1>3 DEF Rotation

\* A secret that is being minted changes only as it is stored.
LEMMA MintsAreNewKept ==
    ASSUME Rotation, TypeOK, RunsInStep, OpensSecrets, MintsAreNew, [Next]_vars
    PROVE MintsAreNew'
  <1>1. CASE RollOut
    BY <1>1 DEF RollOut, TypeOK, Process, MintsAreNew
  <1>2. CASE vars' = vars
    BY <1>2 DEF vars, TypeOK, Process, MintsAreNew
  <1>3. ASSUME NEW i \in Instance, NEW n \in DOMAIN Lists, NEW wrong \in SUBSET Mistakable, Start(i, n, wrong) PROVE MintsAreNew'
    BY <1>3 DEF Start, Down, Becomes, TypeOK, Process, MintsAreNew
  <1>4. ASSUME NEW i \in Instance, Stop(i) PROVE MintsAreNew'
    BY <1>4 DEF Stop, Down, Becomes, TypeOK, Process, MintsAreNew
  <1>5. ASSUME NEW i \in Instance, RecordKeys(i) PROVE MintsAreNew'
    BY <1>5 DEF RecordKeys, Goes, TypeOK, Process, MintsAreNew
  <1>6. ASSUME NEW i \in Instance, CompareKeys(i) PROVE MintsAreNew'
    BY <1>6 DEF CompareKeys, Goes, Down, Becomes, TypeOK, Process, MintsAreNew
  <1>7. ASSUME NEW i \in Instance, CheckStored(i) PROVE MintsAreNew'
    BY <1>7 DEF CheckStored, Goes, Down, Becomes, TypeOK, Process, MintsAreNew
  <1>8. ASSUME NEW i \in Instance, ListSecrets(i) PROVE MintsAreNew'
    <2>1. \A j \in Instance : instance'[j].minting \in {instance[j].minting, NoSecret}
      <3>1. CASE Becomes(i, Down)
        BY <3>1 DEF Becomes, Down, TypeOK
      <3>2. CASE Goes(i, "serving")
        BY <3>2 DEF Goes, TypeOK, Process
      <3>3. ASSUME NEW todo, Becomes(i, [instance[i] EXCEPT !.pc = "seal", !.todo = todo])
            PROVE \A j \in Instance : instance'[j].minting \in {instance[j].minting, NoSecret}
        BY <3>3 DEF Becomes, TypeOK, Process
      <3> QED
        BY <1>8, <3>1, <3>2, <3>3 DEF ListSecrets
    <2> QED
      BY <1>8, <2>1 DEF ListSecrets, MintsAreNew
  <1>9. ASSUME NEW i \in Instance, NEW s \in Secret, SealSecret(i, s) PROVE MintsAreNew'
    <2>1. CASE Becomes(i, Down) /\ UNCHANGED secrets
      BY <2>1 DEF Becomes, Down, TypeOK, MintsAreNew
    <2>2. CASE Becomes(i, Done(instance[i], s)) /\ UNCHANGED secrets
      <3>1. \A j \in Instance : instance'[j].minting = instance[j].minting
        BY <2>2, DoneTyped DEF Becomes, TypeOK, Same
      <3> QED
        BY <2>2, <3>1 DEF MintsAreNew
    <2>3. CASE /\ s \notin instance[i].stale
               /\ secrets' = [secrets EXCEPT ![s] = Head(instance[i].list)]
               /\ instance' = [Changed(s) EXCEPT ![i] = Done(@, s)]
      <3>1. \A j \in Instance : instance'[j].minting = instance[j].minting
        BY <2>3, ResealedTyped DEF Same
      <3>2. CASE secrets[s] = "absent"
        BY <1>9, <2>3, <3>2, ListedIsThere DEF SealSecret
      <3>3. CASE secrets[s] # "absent"
        <4> SUFFICES ASSUME NEW j \in Instance, instance[j].minting # NoSecret
                     PROVE secrets'[instance[j].minting] = "absent"
          BY <3>1 DEF MintsAreNew
        <4>1. instance[j].minting \in Secret /\ secrets[instance[j].minting] = "absent"
          BY DEF MintsAreNew, TypeOK, Process
        <4> QED
          BY <2>3, <3>3, <4>1 DEF TypeOK
      <3> QED
        BY <3>2, <3>3
    <2> QED
      BY <1>9, <2>1, <2>2, <2>3 DEF SealSecret
  <1>10. ASSUME NEW i \in Instance, Serve(i) PROVE MintsAreNew'
    BY <1>10 DEF Serve, Becomes, TypeOK, Process, MintsAreNew
  <1>11. ASSUME NEW i \in Instance, WriteXorb(i) PROVE MintsAreNew'
    BY <1>11 DEF WriteXorb, Becomes, TypeOK, Process, MintsAreNew
  <1>12. ASSUME NEW i \in Instance, CommitXorb(i) PROVE MintsAreNew'
    BY <1>12 DEF CommitXorb, Becomes, TypeOK, Process, MintsAreNew
  <1>13. ASSUME NEW i \in Instance, NEW s \in Secret, Mint(i, s) PROVE MintsAreNew'
    BY <1>13 DEF Mint, Becomes, TypeOK, Process, MintsAreNew
  <1>14. ASSUME NEW i \in Instance, StoreSecret(i) PROVE MintsAreNew'
    BY <1>14 DEF StoreSecret, Becomes, TypeOK, Process, MintsAreNew
  <1>15. ASSUME NEW k \in inUse, Collect(k) PROVE MintsAreNew'
    BY <1>15 DEF Collect, TypeOK, Process, MintsAreNew
  <1>16. ASSUME NEW s \in Secret, Revoke(s) PROVE MintsAreNew'
    <2>1. \A j \in Instance : instance'[j].minting = instance[j].minting
      BY <1>16, ChangedTyped DEF Revoke, Same
    <2> QED
      BY <1>16, <2>1 DEF Revoke, TypeOK, MintsAreNew
  <1> QED
    BY <1>1, <1>2, <1>3, <1>4, <1>5, <1>6, <1>7, <1>8, <1>9, <1>10, <1>11, <1>12, <1>13, <1>14, <1>15, <1>16 DEF Next

\* A secret stays known to who has read it: it opens it, or it learns that it
\* has changed, and to a key it holds.
LEMMA OpensSecretsKept ==
    ASSUME Rotation, TypeOK, RunsInStep, OpensSecrets, MintsAreNew, [Next]_vars
    PROVE OpensSecrets'
  <1> SUFFICES ASSUME NEW j \in Instance, NEW t \in Secret,
                      instance'[j].pc \in {"seal", "serving"}, instance'[j].list # <<>>
               PROVE Knows(j, t)'
    BY DEF OpensSecrets
  <1>a. /\ instance'[j].list = instance[j].list /\ Ids(j)' = Ids(j)
        /\ instance[j].pc \in {"seal", "serving"} \/ Passes(j, "list", "seal")
    BY StepAdvances, SameKeys DEF Advances, Passes
  <1>b. ASSUME instance[j].pc \in {"seal", "serving"}, instance'[j].todo = instance[j].todo,
               secrets'[t] = secrets[t],
               instance'[j].stale = instance[j].stale \/ DOMAIN instance[j].todo = {}
        PROVE Knows(j, t)'
    BY <1>a, <1>b DEF OpensSecrets, Knows, Sealed
  <1>c. ASSUME instance[j].pc \in {"seal", "serving"}, NEW i \in Instance,
               instance[i].pc # "down", instance[i].list # <<>>,
               secrets'[t] = Head(instance[i].list),
               t \notin DOMAIN instance'[j].todo \ instance'[j].stale
        PROVE Knows(j, t)'
    <2>1. Head(instance[i].list) \in Ids(j)
      BY <1>a, <1>c, ListsOverlap
    <2> QED
      BY <1>a, <1>c, <2>1 DEF Knows
  <1>1. CASE RollOut
    BY <1>a, <1>b, <1>1 DEF RollOut, Passes
  <1>2. CASE vars' = vars
    BY <1>a, <1>b, <1>2 DEF vars, Passes
  <1>3. ASSUME NEW i \in Instance, NEW n \in DOMAIN Lists, NEW wrong \in SUBSET Mistakable, Start(i, n, wrong) PROVE Knows(j, t)'
    <2>1. /\ instance[j].pc \in {"seal", "serving"} /\ secrets' = secrets
          /\ instance'[j].todo = instance[j].todo
          /\ instance'[j].stale = instance[j].stale \/ DOMAIN instance[j].todo = {}
      BY <1>a, <1>3 DEF Start, Down, Becomes, TypeOK, Process, Passes
    <2> QED
      BY <1>b, <2>1
  <1>4. ASSUME NEW i \in Instance, Stop(i) PROVE Knows(j, t)'
    <2>1. /\ instance[j].pc \in {"seal", "serving"} /\ secrets' = secrets
          /\ instance'[j].todo = instance[j].todo
          /\ instance'[j].stale = instance[j].stale \/ DOMAIN instance[j].todo = {}
      BY <1>a, <1>4 DEF Stop, Down, Becomes, TypeOK, Process, Passes
    <2> QED
      BY <1>b, <2>1
  <1>5. ASSUME NEW i \in Instance, RecordKeys(i) PROVE Knows(j, t)'
    <2>1. /\ instance[j].pc \in {"seal", "serving"} /\ secrets' = secrets
          /\ instance'[j].todo = instance[j].todo
          /\ instance'[j].stale = instance[j].stale \/ DOMAIN instance[j].todo = {}
      BY <1>a, <1>5 DEF RecordKeys, Goes, TypeOK, Process, Passes
    <2> QED
      BY <1>b, <2>1
  <1>6. ASSUME NEW i \in Instance, CompareKeys(i) PROVE Knows(j, t)'
    <2>1. /\ instance[j].pc \in {"seal", "serving"} /\ secrets' = secrets
          /\ instance'[j].todo = instance[j].todo
          /\ instance'[j].stale = instance[j].stale \/ DOMAIN instance[j].todo = {}
      BY <1>a, <1>6 DEF CompareKeys, Goes, Down, Becomes, TypeOK, Process, Passes
    <2> QED
      BY <1>b, <2>1
  <1>7. ASSUME NEW i \in Instance, CheckStored(i) PROVE Knows(j, t)'
    <2>1. /\ instance[j].pc \in {"seal", "serving"} /\ secrets' = secrets
          /\ instance'[j].todo = instance[j].todo
          /\ instance'[j].stale = instance[j].stale \/ DOMAIN instance[j].todo = {}
      BY <1>a, <1>7 DEF CheckStored, Goes, Down, Becomes, TypeOK, Process, Passes
    <2> QED
      BY <1>b, <2>1
  <1>8. ASSUME NEW i \in Instance, ListSecrets(i) PROVE Knows(j, t)'
    <2>1. CASE instance'[j] = instance[j]
      BY <1>a, <1>b, <1>8, <2>1 DEF ListSecrets, Passes
    <2>2. CASE instance'[j] # instance[j]
      <3>1. i = j
        BY <1>8, <2>2 DEF ListSecrets, Goes, Becomes, TypeOK
      <3> DEFINE todo == [s \in ToSeal(j) |-> secrets[s]]
      <3>2. Becomes(j, [instance[j] EXCEPT !.pc = "seal", !.todo = todo])
        BY <1>a, <1>8, <3>1 DEF ListSecrets, Goes, Becomes, Down, TypeOK, Process
      <3>3. DOMAIN todo = ToSeal(j) /\ \A s \in ToSeal(j) : todo[s] = secrets[s]
        OBVIOUS
      <3> HIDE DEF todo
      <3>4. instance'[j].todo = todo /\ instance'[j].stale = instance[j].stale
        BY <3>2 DEF Becomes, TypeOK, Process
      <3>5. instance[j].stale = {} /\ secrets' = secrets
        BY <1>8, <3>1 DEF ListSecrets, RunsInStep
      <3>6. ASSUME t \notin ToSeal(j), Sealed(t) PROVE secrets[t] \in Ids(j)
        BY <1>a, <3>6, HeadOfList DEF ToSeal, Sealed, IsCurrent
      <3> QED
        BY <1>a, <3>3, <3>4, <3>5, <3>6 DEF Knows, Sealed
    <2> QED
      BY <2>1, <2>2
  <1>9. ASSUME NEW i \in Instance, NEW s \in Secret, SealSecret(i, s) PROVE Knows(j, t)'
    <2>0. instance[i].pc = "seal" /\ instance[i].list # <<>> /\ s \in DOMAIN instance[i].todo
      BY <1>9 DEF SealSecret, RunsInStep
    <2>1. CASE Becomes(i, Down) /\ UNCHANGED secrets
      <3>1. instance'[j] = instance[j]
        BY <2>1 DEF Becomes, Down, TypeOK
      <3> QED
        BY <1>a, <1>b, <2>1, <3>1 DEF Passes
    <2>2. CASE s \in instance[i].stale /\ Becomes(i, Done(instance[i], s)) /\ UNCHANGED secrets
      <3>1. CASE i # j
        <4>1. instance'[j] = instance[j]
          BY <2>2, <3>1 DEF Becomes, TypeOK
        <4> QED
          BY <1>a, <1>b, <2>2, <4>1 DEF Passes
      <3>2. CASE i = j
        <4> DEFINE d == Done(instance[i], s)
        <4>1. instance[j] \in Process /\ instance'[j] = d
          BY <2>2, <3>2 DEF Becomes, TypeOK
        <4>2. /\ d.stale = instance[j].stale /\ DOMAIN d.todo = DOMAIN instance[j].todo \ {s}
              /\ \A u \in DOMAIN instance[j].todo \ {s} : d.todo[u] = instance[j].todo[u]
          BY <3>2, <4>1, DoneTyped
        <4> HIDE DEF d
        <4>3. Knows(j, t)
          BY <1>a, <2>0, <3>2 DEF OpensSecrets, Passes
        <4> QED
          BY <1>a, <2>2, <3>2, <4>1, <4>2, <4>3 DEF Knows, Sealed
      <3> QED
        BY <3>1, <3>2
    <2>3. CASE /\ secrets' = [secrets EXCEPT ![s] = Head(instance[i].list)]
               /\ instance' = [Changed(s) EXCEPT ![i] = Done(@, s)]
      <3>1. /\ DOMAIN instance'[j].todo = DOMAIN instance[j].todo \ (IF j = i THEN {s} ELSE {})
            /\ \A u \in DOMAIN instance'[j].todo : instance'[j].todo[u] = instance[j].todo[u]
            /\ instance'[j].stale = IF s \in DOMAIN instance[j].todo THEN instance[j].stale \cup {s}
                                    ELSE instance[j].stale
            /\ instance'[j].pc = instance[j].pc
        BY <2>3, ResealedTyped DEF Same
      <3>2. instance[j].pc \in {"seal", "serving"}
        BY <1>a, <3>1 DEF Passes
      <3>3. CASE t = s
        <4>1. secrets'[t] = Head(instance[i].list) /\ t \notin DOMAIN instance'[j].todo \ instance'[j].stale
          BY <2>3, <3>1, <3>3 DEF TypeOK
        <4> QED
          BY <1>c, <2>0, <3>2, <4>1
      <3>4. CASE t # s
        <4>1. secrets'[t] = secrets[t] /\ Knows(j, t)
          BY <1>a, <2>3, <3>2, <3>4 DEF TypeOK, OpensSecrets
        <4>2. t \in DOMAIN instance'[j].todo \ instance'[j].stale
                 <=> t \in DOMAIN instance[j].todo \ instance[j].stale
          BY <3>1, <3>4
        <4>3. t \in DOMAIN instance'[j].todo => instance'[j].todo[t] = instance[j].todo[t]
          BY <3>1
        <4> QED
          BY <1>a, <4>1, <4>2, <4>3 DEF Knows, Sealed
      <3> QED
        BY <3>3, <3>4
    <2> QED
      BY <1>9, <2>1, <2>2, <2>3 DEF SealSecret
  <1>10. ASSUME NEW i \in Instance, Serve(i) PROVE Knows(j, t)'
    <2>1. /\ instance[j].pc \in {"seal", "serving"} /\ secrets' = secrets
          /\ instance'[j].todo = instance[j].todo
          /\ instance'[j].stale = instance[j].stale \/ DOMAIN instance[j].todo = {}
      BY <1>a, <1>10 DEF Serve, Becomes, TypeOK, Process, Passes
    <2> QED
      BY <1>b, <2>1
  <1>11. ASSUME NEW i \in Instance, WriteXorb(i) PROVE Knows(j, t)'
    <2>1. /\ instance[j].pc \in {"seal", "serving"} /\ secrets' = secrets
          /\ instance'[j].todo = instance[j].todo
          /\ instance'[j].stale = instance[j].stale \/ DOMAIN instance[j].todo = {}
      BY <1>a, <1>11 DEF WriteXorb, Becomes, TypeOK, Process, Passes
    <2> QED
      BY <1>b, <2>1
  <1>12. ASSUME NEW i \in Instance, CommitXorb(i) PROVE Knows(j, t)'
    <2>1. /\ instance[j].pc \in {"seal", "serving"} /\ secrets' = secrets
          /\ instance'[j].todo = instance[j].todo
          /\ instance'[j].stale = instance[j].stale \/ DOMAIN instance[j].todo = {}
      BY <1>a, <1>12 DEF CommitXorb, Becomes, TypeOK, Process, Passes
    <2> QED
      BY <1>b, <2>1
  <1>13. ASSUME NEW i \in Instance, NEW s \in Secret, Mint(i, s) PROVE Knows(j, t)'
    <2>1. /\ instance[j].pc \in {"seal", "serving"} /\ secrets' = secrets
          /\ instance'[j].todo = instance[j].todo
          /\ instance'[j].stale = instance[j].stale \/ DOMAIN instance[j].todo = {}
      BY <1>a, <1>13 DEF Mint, Becomes, TypeOK, Process, Passes
    <2> QED
      BY <1>b, <2>1
  <1>14. ASSUME NEW i \in Instance, StoreSecret(i) PROVE Knows(j, t)'
    <2>1. /\ instance'[j].pc = instance[j].pc /\ instance'[j].todo = instance[j].todo
          /\ instance'[j].stale = instance[j].stale
      BY <1>14 DEF StoreSecret, Becomes, TypeOK, Process
    <2>2. instance[j].pc \in {"seal", "serving"}
      BY <1>a, <2>1 DEF Passes
    <2> DEFINE m == instance[i].minting
    <2>3. /\ m \in Secret /\ instance[i].pc = "serving" /\ instance[i].list # <<>>
          /\ secrets[m] = "absent" /\ secrets' = [secrets EXCEPT ![m] = Head(instance[i].list)]
      BY <1>14 DEF StoreSecret, RunsInStep, MintsAreNew, TypeOK, Process
    <2>4. CASE t = m
      <3>1. t \notin DOMAIN instance[j].todo \ instance[j].stale
        BY <2>2, <2>3, <2>4, ListedIsThere DEF RunsInStep
      <3>2. secrets'[t] = Head(instance[i].list)
        BY <2>3, <2>4 DEF TypeOK
      <3> QED
        BY <1>c, <2>1, <2>2, <2>3, <3>1, <3>2
    <2>5. CASE t # m
      BY <1>b, <2>1, <2>2, <2>3, <2>5 DEF TypeOK
    <2> QED
      BY <2>4, <2>5
  <1>15. ASSUME NEW k \in inUse, Collect(k) PROVE Knows(j, t)'
    <2>1. /\ instance[j].pc \in {"seal", "serving"} /\ secrets' = secrets
          /\ instance'[j].todo = instance[j].todo
          /\ instance'[j].stale = instance[j].stale \/ DOMAIN instance[j].todo = {}
      BY <1>a, <1>15 DEF Collect, TypeOK, Process, Passes
    <2> QED
      BY <1>b, <2>1
  <1>16. ASSUME NEW s \in Secret, Revoke(s) PROVE Knows(j, t)'
    <2>1. /\ instance'[j].pc = instance[j].pc /\ instance'[j].todo = instance[j].todo
          /\ instance'[j].stale = IF s \in DOMAIN instance[j].todo THEN instance[j].stale \cup {s}
                                  ELSE instance[j].stale
      BY <1>16, ChangedTyped DEF Revoke, Same
    <2>2. instance[j].pc \in {"seal", "serving"}
      BY <1>a, <2>1 DEF Passes
    <2>3. CASE t = s
      BY <1>16, <2>1, <2>3 DEF Revoke, Knows, Sealed, TypeOK
    <2>4. CASE t # s
      <3>1. secrets'[t] = secrets[t] /\ Knows(j, t)
        BY <1>a, <1>16, <2>2, <2>4 DEF Revoke, TypeOK, OpensSecrets
      <3>2. t \in DOMAIN instance'[j].todo \ instance'[j].stale
               <=> t \in DOMAIN instance[j].todo \ instance[j].stale
        BY <2>1, <2>4
      <3> QED
        BY <1>a, <2>1, <3>1, <3>2 DEF Knows, Sealed
    <2> QED
      BY <2>3, <2>4
  <1> QED
    BY <1>1, <1>2, <1>3, <1>4, <1>5, <1>6, <1>7, <1>8, <1>9, <1>10, <1>11, <1>12, <1>13, <1>14, <1>15, <1>16 DEF Next

----------------------------------------------------------------------------
(* The theorems. *)

\* It all holds at first, when no instance runs.
LEMMA InitInvariant == ASSUME Rotation, Init PROVE IInv
  <1>1. TypeOK
    <2>1. 1 \in DOMAIN Lists
      BY DEF Rotation
    <2>2. \A i \in Instance : instance[i] = Down
      BY DEF Init
    <2>3. \A i \in Instance : instance[i].wrong \subseteq Ids(i)
      BY <2>2, DownTyped DEF Ids
    <2> QED
      BY <2>1, <2>3, DownTyped DEF Init, TypeOK
  <1>2. KeysOnRecord /\ RunsInStep /\ ComparedKeys /\ OpensContent /\ OpensSecrets /\ MintsAreNew
    BY DEF Init, Down, KeysOnRecord, RunsInStep, ComparedKeys, OpensContent, OpensSecrets, MintsAreNew
  <1> QED
    BY <1>1, <1>2 DEF IInv

\* Every step keeps it.
LEMMA StepInvariant == ASSUME Rotation, IInv, [Next]_vars PROVE IInv'
  BY TypeKept, RunsInStepKept, KeysOnRecordKept, ComparedKeysKept, OpensContentKept,
     OpensSecretsKept, MintsAreNewKept DEF IInv

LEMMA Invariant == ASSUME Rotation PROVE Spec => []IInv
  BY InitInvariant, StepInvariant, PTL DEF Spec

\* Instances, keys and secrets have their types.
THEOREM KeysTypeCorrect == ASSUME Rotation PROVE Spec => []TypeOK
  <1>1. IInv => TypeOK
    BY DEF IInv
  <1> QED
    BY <1>1, Invariant, PTL

\* A name means one key, whatever instances are given by mistake (CheckKeys).
THEOREM NamesMeanOneKey == ASSUME Rotation PROVE Spec => []KeysOnRecord
  <1>1. IInv => KeysOnRecord
    BY DEF IInv
  <1> QED
    BY <1>1, Invariant, PTL

\* Through any number of rotations, in their steps, who serves opens every xorb
\* and every secret (CheckKeys, SealStoredCredentials).
THEOREM RotationsKeepReading == ASSUME Rotation PROVE Spec => []StoredIsReadable
  <1>1. IInv => StoredIsReadable
    <2> SUFFICES ASSUME IInv, NEW i \in Instance, instance[i].pc = "serving", instance[i].list # <<>>
                 PROVE /\ inUse \ {Clear} \subseteq Keys(i)
                       /\ \A s \in Secret : Sealed(s) => secrets[s] \in Ids(i)
      BY DEF StoredIsReadable
    <2>1. inUse \ {Clear} \subseteq Keys(i)
      BY DEF IInv, OpensContent
    <2>2. DOMAIN instance[i].todo = {}
      BY DEF IInv, RunsInStep
    <2> QED
      BY <2>1, <2>2 DEF IInv, OpensSecrets, Knows
  <1> QED
    BY <1>1, Invariant, PTL

----------------------------------------------------------------------------
(* Staging files: places of bytes. *)

\* A number is in one segment, and at one place of it.
LEMMA PlacesAreUnique ==
    ASSUME NEW D \in Nat, NEW m \in Nat, NEW n \in Nat, NEW p \in 1..D, NEW q \in 1..D,
           m * D + p = n * D + q
    PROVE m = n /\ p = q
  <1>1. ASSUME NEW a \in Nat, NEW b \in Nat, NEW x \in 1..D, NEW y \in 1..D, a * D + x = b * D + y,
               a < b
        PROVE FALSE
    <2>1. b - a - 1 \in Nat
      BY <1>1
    <2> DEFINE c == b - a - 1
    <2>2. c * D \in Nat
      BY <2>1
    <2>3. b * D = a * D + D + c * D
      <3>1. b = a + 1 + c /\ c \in Nat
        BY <2>1
      <3> HIDE DEF c
      <3> QED
        BY <3>1
    <2>4. a * D \in Nat /\ b * D \in Nat
      BY <1>1
    <2> QED
      BY <1>1, <2>2, <2>3, <2>4
  <1>2. ~(m < n) /\ ~(n < m)
    BY <1>1
  <1>3. m = n
    BY <1>2
  <1>4. m * D \in Nat
    OBVIOUS
  <1> QED
    BY <1>3, <1>4

\* The bytes of as many segments, and one more.
LEMMA NextSegment ==
    ASSUME SF!StagedAssumption, NEW n \in Nat
    PROVE /\ n * Segment \in Nat /\ (n + 1) * Segment = n * Segment + Segment
          /\ n * (Segment + 1) = n * Segment + n
          /\ (n + 1) * (Segment + 1) = n * Segment + n + Segment + 1
  BY DEF SF!StagedAssumption

\* And of fewer of them.
LEMMA MoreSegments ==
    ASSUME SF!StagedAssumption, NEW m \in Nat, NEW n \in Nat, m < n
    PROVE m * Segment + Segment <= n * Segment
  <1> DEFINE c == n - m - 1
  <1>1. c \in Nat /\ n = m + 1 + c
    OBVIOUS
  <1> HIDE DEF c
  <1>2. c * Segment \in Nat /\ m * Segment \in Nat
    BY <1>1 DEF SF!StagedAssumption
  <1>3. n * Segment = m * Segment + Segment + c * Segment
    BY <1>1 DEF SF!StagedAssumption
  <1> QED
    BY <1>2, <1>3 DEF SF!StagedAssumption

\* What a byte says of its segment.
LEMMA BytesOfSegments ==
    ASSUME SF!StagedAssumption, SF!StagedTyped, SF!BufferFits, NEW b \in SF!StagedByte, SF!WasSealed(b)
    PROVE /\ b.place \in 1..Segment + 1
          /\ b.last => b.n * Segment <= written /\ written <= b.n * Segment + Segment
          /\ ~b.last => b.to = b.n * Segment + Segment
  <1>1. b.n \in Nat /\ b.n * Segment \in Nat /\ (b.n + 1) * Segment = b.n * Segment + Segment
        /\ Segment \in Nat /\ written \in Nat /\ sealed \in Nat
    BY NextSegment DEF SF!StagedByte, SF!StagedTyped, SF!StagedAssumption
  <1>2. CASE b.last
    <2>1. writer = "closed" /\ b.n = sealed - 1 /\ b.to = written /\ b.from = b.n * Segment + 1
          /\ b.place \in 1..(b.to - b.from + 2)
      BY <1>2 DEF SF!WasSealed
    <2>2. b.n * Segment <= written /\ written <= b.n * Segment + Segment
      BY <1>1, <2>1 DEF SF!BufferFits
    <2> QED
      BY <1>1, <1>2, <2>1, <2>2
  <1>3. CASE ~b.last
    <2>1. b.to = b.n * Segment + Segment /\ b.from = b.n * Segment + 1
          /\ b.place \in 1..(b.to - b.from + 2)
      BY <1>1, <1>3 DEF SF!WasSealed
    <2> QED
      BY <1>1, <1>3, <2>1
  <1>4. b.last \in BOOLEAN
    BY DEF SF!StagedByte
  <1> QED
    BY <1>2, <1>3

\* Bytes of one segment say the same of it.
LEMMA SameSegment ==
    ASSUME NEW b \in SF!StagedByte, SF!WasSealed(b), NEW c \in SF!StagedByte, SF!WasSealed(c), b.n = c.n
    PROVE b.last = c.last /\ b.from = c.from /\ b.to = c.to
  <1>1. b.last = c.last
    BY DEF SF!WasSealed, SF!StagedByte
  <1> QED
    BY <1>1 DEF SF!WasSealed

\* Bytes at one place are one byte, unless one is damaged.
LEMMA BytesAreUnique ==
    ASSUME SF!StagedAssumption, SF!StagedTyped, SF!BufferFits,
           NEW b \in SF!StagedByte, SF!WasSealed(b), b.sound, NEW c \in SF!StagedByte, SF!WasSealed(c), c.sound,
           b.n * (Segment + 1) + b.place = c.n * (Segment + 1) + c.place
    PROVE b = c
  <1>1. b.n \in Nat /\ c.n \in Nat /\ Segment + 1 \in Nat
        /\ b.place \in 1..Segment + 1 /\ c.place \in 1..Segment + 1
    BY BytesOfSegments DEF SF!StagedByte, SF!StagedAssumption
  <1>2. b.n = c.n /\ b.place = c.place
    <2> DEFINE D == Segment + 1
               m == b.n
               n == c.n
               p == b.place
               q == c.place
    <2>1. D \in Nat /\ m \in Nat /\ n \in Nat /\ p \in 1..D /\ q \in 1..D /\ m * D + p = n * D + q
      BY <1>1
    <2> HIDE DEF D, m, n, p, q
    <2>2. m = n /\ p = q
      BY <2>1, PlacesAreUnique
    <2> QED
      BY <2>2 DEF m, n, p, q
  <1>3. b.last = c.last /\ b.from = c.from /\ b.to = c.to
    BY <1>2, SameSegment
  <1>4. b.sound = c.sound
    BY DEF SF!StagedByte
  <1> QED
    BY <1>2, <1>3, <1>4 DEF SF!StagedByte

----------------------------------------------------------------------------
(* Staging files: what the writer does. *)

\* A segment that is sealed is in its place, after those before it.
LEMMA SealHolds ==
    ASSUME SF!StagedAssumption, SF!IInv, writer = "writing", NEW last \in BOOLEAN, SF!Seal(last),
           writer' = IF last THEN "closed" ELSE "writing",
           written' \in Nat, written <= written', last => written' = written,
           ~last => written = sealed * Segment + Segment
    PROVE /\ file' \in Seq(SF!StagedByte) /\ sealed' \in Nat
          /\ Len(file') = Len(file) + (written - sealed * Segment) + 1
          /\ SF!BytesWereSealed' /\ SF!Whole'
  <1>1. /\ written \in Nat /\ sealed \in Nat /\ sealed * Segment \in Nat /\ Segment \in Nat \ {0}
        /\ (sealed + 1) * Segment = sealed * Segment + Segment
        /\ sealed * (Segment + 1) = sealed * Segment + sealed
    BY NextSegment DEF SF!IInv, SF!StagedTyped, SF!StagedAssumption
  <1>2. sealed * Segment <= written /\ written <= sealed * Segment + Segment
    BY <1>1 DEF SF!IInv, SF!BufferFits
  <1>3. /\ file \in Seq(SF!StagedByte) /\ Len(file) \in Nat /\ Len(file) = sealed + sealed * Segment
        /\ \A i \in 1..Len(file) : file[i].n * (Segment + 1) + file[i].place = i /\ file[i].sound
    BY DEF SF!IInv, SF!StagedTyped, SF!HarmShows, SF!Whole, SF!InPlace
  <1> DEFINE from == sealed * Segment + 1
             s == SF!Sealed(sealed, last, from, written)
             L == written - from + 2
  <1>4. /\ s \in Seq(SF!StagedByte) /\ Len(s) = L
        /\ \A k \in 1..L : s[k] = [n |-> sealed, last |-> last, from |-> from, to |-> written,
                                   place |-> k, sound |-> TRUE]
    <2>1. from \in Nat /\ from <= written + 1
      BY <1>1, <1>2
    <2>2. sealed \in Nat /\ written \in Nat
      BY <1>1
    <2> HIDE DEF from
    <2> QED
      BY <2>1, <2>2 DEF SF!Sealed, SF!StagedByte
  <1>5. file' = file \o s /\ sealed' = sealed + 1
    BY DEF SF!Seal
  <1> HIDE DEF s
  <1>6. /\ file' \in Seq(SF!StagedByte) /\ Len(file') = Len(file) + L
        /\ \A i \in 1..Len(file) : file'[i] = file[i]
        /\ \A k \in 1..L : file'[Len(file) + k] = s[k]
    BY <1>1, <1>2, <1>3, <1>4, <1>5
  <1>7. \A i \in 1..Len(file') : i \in 1..Len(file) \/ i - Len(file) \in 1..L
    BY <1>1, <1>2, <1>3, <1>6
  <1>8. SF!BytesWereSealed'
    <2> SUFFICES ASSUME NEW i \in 1..Len(file') PROVE SF!WasSealed(file[i])'
      BY <1>6 DEF SF!BytesWereSealed
    <2>1. CASE i \in 1..Len(file)
      <3>1. SF!WasSealed(file[i]) /\ file'[i] = file[i]
        BY <1>3, <1>6, <2>1 DEF SF!IInv, SF!BytesWereSealed
      <3>2. file[i] \in SF!StagedByte
        BY <1>3, <2>1
      <3>3. file[i].n \in Nat /\ file[i].to \in Nat /\ file[i].last \in BOOLEAN
        BY <3>2 DEF SF!StagedByte
      <3>4. file[i].n < sealed /\ ~file[i].last
        BY <3>1 DEF SF!WasSealed
      <3>5. /\ file[i].from = file[i].n * Segment + 1 /\ file[i].to = (file[i].n + 1) * Segment
            /\ file[i].to <= written /\ file[i].place \in 1..(file[i].to - file[i].from + 2)
        BY <3>1, <3>4 DEF SF!WasSealed
      <3>6. file[i].n < sealed' /\ file[i].n # sealed' - 1 /\ file[i].to <= written'
        <4>1. file[i].to <= written /\ written <= written' /\ written \in Nat
          BY <1>1, <3>5
        <4>2. file[i].to <= written'
          BY <3>3, <4>1
        <4>3. sealed' = sealed + 1 /\ sealed \in Nat /\ file[i].n < sealed
          BY <1>1, <1>5, <3>4
        <4> QED
          BY <3>3, <4>2, <4>3
      <3> QED
        BY <3>1, <3>4, <3>5, <3>6 DEF SF!WasSealed
    <2>2. CASE i - Len(file) \in 1..L
      <3>1. file'[i] = [n |-> sealed, last |-> last, from |-> from, to |-> written,
                        place |-> i - Len(file), sound |-> TRUE]
        BY <1>3, <1>4, <1>6, <2>2
      <3> QED
        BY <1>1, <1>2, <1>5, <2>2, <3>1 DEF SF!WasSealed
    <2> QED
      BY <1>7, <2>1, <2>2
  <1>9. SF!Whole'
    <2>1. ASSUME NEW i \in 1..Len(file')
          PROVE file'[i].n * (Segment + 1) + file'[i].place = i /\ file'[i].sound
      <3>1. CASE i \in 1..Len(file)
        BY <1>3, <1>6, <3>1
      <3>2. CASE i - Len(file) \in 1..L
        <4>1. file'[i].n = sealed /\ file'[i].place = i - Len(file) /\ file'[i].sound
          <5> DEFINE k == i - Len(file)
          <5>1. k \in 1..L /\ Len(file) + k = i
            BY <1>3, <3>2
          <5> HIDE DEF k, L
          <5>2. file'[i] = s[k]
            BY <1>6, <5>1
          <5> QED
            BY <1>4, <5>1, <5>2 DEF k
        <4>2. sealed * (Segment + 1) = Len(file) /\ i \in Int /\ Len(file) \in Int
          BY <1>1, <1>3, <3>2
        <4>3. sealed * (Segment + 1) + (i - Len(file)) = i
          BY <4>2
        <4> QED
          BY <4>1, <4>3
      <3> QED
        BY <1>7, <3>1, <3>2
    <2>2. Len(file') = sealed' + IF writer' = "closed" THEN written' ELSE sealed' * Segment
      <3>1. Len(file') = sealed + sealed * Segment + (written - sealed * Segment + 1)
        BY <1>1, <1>3, <1>6
      <3>2. Len(file') = sealed' + written
        BY <1>1, <1>5, <3>1
      <3>3. ~last => written = sealed' * Segment
        BY <1>1, <1>5
      <3> QED
        BY <3>2, <3>3
    <2> QED
      BY <2>1, <2>2 DEF SF!Whole, SF!InPlace
  <1> QED
    BY <1>1, <1>5, <1>6, <1>8, <1>9

\* The reader is idle while the file is written, and has nothing.
LEMMA IdleReaders ==
    ASSUME SF!StagedAssumption, SF!IInv, opened.pc = "idle", opened' = opened,
           file' \in Seq(SF!StagedByte)
    PROVE SF!ReaderFollows' /\ (opened.at \in 1..Len(file) + 1)'
          /\ (opened.pc \in {"idle", "reading", "eof", "failed"})'
  <1>1. opened = SF!NoReader
    BY DEF SF!IInv, SF!ReaderFollows
  <1>2. opened'.pc = "idle" /\ opened'.at = 1 /\ opened' = SF!NoReader /\ SF!NoReader' = SF!NoReader
    BY <1>1 DEF SF!NoReader
  <1>3. SF!ReaderFollows'
    BY <1>2 DEF SF!ReaderFollows
  <1> QED
    BY <1>2, <1>3

\* A turn of Write's loop (Write): the buffer never holds more than a segment.
LEMMA WriteHolds ==
    ASSUME SF!StagedAssumption, SF!IInv, NEW n \in 1..Segment, SF!Write(n)
    PROVE SF!IInv'
  <1>1. /\ written \in 0..Longest /\ sealed \in 0..Longest + 1 /\ sealed * Segment \in Nat
        /\ Segment \in Nat \ {0} /\ Longest \in Nat
        /\ (sealed + 1) * Segment = sealed * Segment + Segment
    BY NextSegment DEF SF!IInv, SF!TypeOK, SF!StagedAssumption
  <1>2. writer = "writing" /\ ~harmed /\ opened.pc = "idle" /\ written' = written + n
        /\ UNCHANGED <<writer, harmed, opened>> /\ written' <= Longest
    BY DEF SF!Write, SF!IInv, SF!ReaderFollows, SF!HarmShows
  <1>3. sealed * Segment <= written /\ written <= sealed * Segment + Segment
    BY <1>1, <1>2 DEF SF!IInv, SF!BufferFits
  <1>4. /\ file' \in Seq(SF!StagedByte) /\ sealed' \in Nat /\ SF!BytesWereSealed' /\ SF!Whole'
        /\ sealed' * Segment <= written' /\ written' <= sealed' * Segment + Segment
        /\ (sealed' + 1) * Segment = sealed' * Segment + Segment
        /\ Len(file') <= written' + sealed' /\ sealed' <= Longest + 1
    <2>1. CASE SF!Buffered = Segment
      <3>1. SF!Seal(FALSE) /\ n <= Segment /\ sealed' = sealed + 1
        BY <2>1 DEF SF!Write, SF!Seal
      <3>2. written = sealed * Segment + Segment /\ written' \in Nat /\ written <= written'
        BY <1>1, <1>2, <2>1 DEF SF!Buffered
      <3>3. /\ file' \in Seq(SF!StagedByte) /\ SF!BytesWereSealed' /\ SF!Whole'
            /\ Len(file') = Len(file) + (written - sealed * Segment) + 1
        BY <1>2, <3>1, <3>2, SealHolds
      <3>4. sealed' * Segment = sealed * Segment + Segment /\ sealed' \in Nat
        BY <1>1, <3>1
      <3>5. (sealed' + 1) * Segment = sealed' * Segment + Segment
        BY <3>4, NextSegment
      <3>6. Len(file) = sealed + sealed * Segment
        BY <1>2 DEF SF!IInv, SF!HarmShows, SF!Whole
      <3>7. sealed' <= Longest + 1
        <4>1. ASSUME sealed = Longest + 1 PROVE FALSE
          <5>1. written <= Longest /\ sealed <= sealed * Segment
            BY <1>1
          <5> QED
            BY <1>1, <1>3, <4>1, <5>1
        <4> QED
          BY <1>1, <3>1, <4>1
      <3> QED
        BY <1>1, <1>2, <3>1, <3>2, <3>3, <3>4, <3>5, <3>6, <3>7
    <2>2. CASE SF!Buffered # Segment
      <3>1. n <= Segment - (written - sealed * Segment) /\ UNCHANGED <<file, sealed>>
        BY <2>2 DEF SF!Write, SF!Buffered
      <3>2. sealed * Segment <= written' /\ written' <= sealed * Segment + Segment
        BY <1>1, <1>2, <1>3, <3>1
      <3>3. SF!Whole /\ file \in Seq(SF!StagedByte) /\ Len(file) <= written + sealed /\ Len(file) \in Nat
        BY <1>2 DEF SF!IInv, SF!HarmShows, SF!StagedTyped, SF!TypeOK
      <3>4. SF!Whole'
        BY <1>2, <3>1, <3>3 DEF SF!Whole, SF!InPlace
      <3>5. SF!BytesWereSealed'
        <4> SUFFICES ASSUME NEW i \in 1..Len(file) PROVE SF!WasSealed(file[i])'
          BY <3>1, <3>3 DEF SF!BytesWereSealed
        <4>1. SF!WasSealed(file[i]) /\ file[i] \in SF!StagedByte
          BY <3>3 DEF SF!IInv, SF!BytesWereSealed
        <4>2. file[i].to \in Nat /\ file[i].to <= written /\ ~file[i].last
          BY <1>2, <4>1 DEF SF!WasSealed, SF!StagedByte
        <4>3. file[i].to <= written'
          BY <1>1, <1>2, <4>2
        <4> QED
          BY <1>2, <3>1, <4>1, <4>2, <4>3 DEF SF!WasSealed
      <3> QED
        BY <1>1, <1>2, <3>1, <3>2, <3>3, <3>4, <3>5
    <2> QED
      BY <2>1, <2>2
  <1>5. SF!BufferFits'
    BY <1>2, <1>4 DEF SF!BufferFits
  <1>6. SF!HarmShows'
    BY <1>2, <1>4 DEF SF!HarmShows
  <1>7. SF!ReaderFollows' /\ (opened.at \in 1..Len(file) + 1)'
        /\ (opened.pc \in {"idle", "reading", "eof", "failed"})'
    BY <1>2, <1>4, IdleReaders
  <1>8. SF!StagedTyped'
    BY <1>1, <1>2, <1>4 DEF SF!IInv, SF!StagedTyped
  <1>9. SF!TypeOK'
    BY <1>1, <1>2, <1>4, <1>7 DEF SF!IInv, SF!TypeOK
  <1> QED
    BY <1>4, <1>5, <1>6, <1>7, <1>8, <1>9 DEF SF!IInv

\* The segment sealed as the last is the last (Close).
LEMMA CloseHolds ==
    ASSUME SF!StagedAssumption, SF!IInv, SF!Close
    PROVE SF!IInv'
  <1>1. /\ written \in 0..Longest /\ sealed \in 0..Longest + 1 /\ sealed * Segment \in Nat
        /\ Segment \in Nat \ {0} /\ Longest \in Nat
        /\ (sealed + 1) * Segment = sealed * Segment + Segment
    BY NextSegment DEF SF!IInv, SF!TypeOK, SF!StagedAssumption
  <1>2. writer = "writing" /\ ~harmed /\ opened.pc = "idle" /\ SF!Seal(TRUE)
        /\ writer' = "closed" /\ UNCHANGED <<written, harmed, opened>> /\ sealed' = sealed + 1
    BY DEF SF!Close, SF!Seal, SF!IInv, SF!ReaderFollows, SF!HarmShows
  <1>3. sealed * Segment <= written /\ written <= sealed * Segment + Segment
    BY <1>1, <1>2 DEF SF!IInv, SF!BufferFits
  <1>4. /\ file' \in Seq(SF!StagedByte) /\ SF!BytesWereSealed' /\ SF!Whole'
        /\ Len(file') = Len(file) + (written - sealed * Segment) + 1
    <2>1. written' \in Nat /\ written <= written' /\ written' = written
      BY <1>1, <1>2
    <2> QED
      BY <1>2, <2>1, SealHolds
  <1>5. Len(file) = sealed + sealed * Segment
    BY <1>2 DEF SF!IInv, SF!HarmShows, SF!Whole
  <1>6. Len(file') <= written' + sealed'
    BY <1>1, <1>2, <1>4, <1>5
  <1>7. sealed' <= Longest + 1
    <2>1. ASSUME sealed = Longest + 1 PROVE FALSE
      <3>1. sealed <= sealed * Segment
        BY <1>1
      <3> QED
        BY <1>1, <1>3, <2>1, <3>1
    <2> QED
      BY <1>1, <1>2, <2>1
  <1>8. SF!BufferFits'
    <2>1. sealed' - 1 = sealed
      BY <1>1, <1>2
    <2> QED
      BY <1>1, <1>2, <1>3, <2>1 DEF SF!BufferFits
  <1>9. SF!HarmShows'
    BY <1>2, <1>4 DEF SF!HarmShows
  <1>10. SF!ReaderFollows' /\ (opened.at \in 1..Len(file) + 1)'
         /\ (opened.pc \in {"idle", "reading", "eof", "failed"})'
    BY <1>2, <1>4, IdleReaders
  <1>11. SF!StagedTyped' /\ SF!TypeOK'
    BY <1>1, <1>2, <1>4, <1>6, <1>7, <1>10 DEF SF!IInv, SF!StagedTyped, SF!TypeOK
  <1> QED
    BY <1>4, <1>8, <1>9, <1>10, <1>11 DEF SF!IInv

\* A crash leaves full segments.
LEMMA CrashHolds ==
    ASSUME SF!StagedAssumption, SF!IInv, SF!Crash
    PROVE SF!IInv'
  <1>1. writer = "writing" /\ ~harmed /\ opened.pc = "idle" /\ writer' = "crashed"
        /\ UNCHANGED <<written, sealed, file, harmed, opened>>
    BY DEF SF!Crash, SF!IInv, SF!ReaderFollows, SF!HarmShows
  <1>2. SF!StagedTyped' /\ SF!TypeOK' /\ SF!BufferFits'
    BY <1>1 DEF SF!IInv, SF!StagedTyped, SF!TypeOK, SF!BufferFits
  <1>3. SF!BytesWereSealed'
    BY <1>1 DEF SF!IInv, SF!BytesWereSealed, SF!WasSealed
  <1>4. SF!HarmShows'
    BY <1>1 DEF SF!IInv, SF!HarmShows, SF!Whole, SF!InPlace
  <1>5. SF!ReaderFollows'
    BY <1>1, <1>2, IdleReaders DEF SF!StagedTyped
  <1> QED
    BY <1>2, <1>3, <1>4, <1>5 DEF SF!IInv

----------------------------------------------------------------------------
(* Staging files: what can happen to one. *)

\* Bytes that were sealed.
Genuine(s) == s \in Seq(SF!StagedByte) /\ \A i \in 1..Len(s) : SF!WasSealed(s[i])

\* Bytes of a file are bytes that were sealed.
LEMMA RunIsGenuine ==
    ASSUME SF!IInv, NEW i \in 0..Len(file), NEW j \in 0..Len(file), i <= j
    PROVE Genuine(SF!Run(i, j)) /\ Len(SF!Run(i, j)) = j - i
  <1>1. file \in Seq(SF!StagedByte) /\ \A k \in 1..Len(file) : SF!WasSealed(file[k])
    BY DEF SF!IInv, SF!StagedTyped, SF!BytesWereSealed
  <1>2. SF!Run(i, j) \in Seq(SF!StagedByte) /\ Len(SF!Run(i, j)) = j - i
        /\ \A k \in 1..(j - i) : SF!Run(i, j)[k] = file[i + k]
    BY <1>1 DEF SF!Run
  <1>3. \A k \in 1..(j - i) : i + k \in 1..Len(file)
    BY <1>1
  <1> QED
    BY <1>1, <1>2, <1>3 DEF Genuine

\* So are two runs of them, one after the other.
LEMMA JoinedIsGenuine ==
    ASSUME NEW s, NEW t, Genuine(s), Genuine(t)
    PROVE Genuine(s \o t) /\ Len(s \o t) = Len(s) + Len(t)
  <1>1. /\ s \in Seq(SF!StagedByte) /\ t \in Seq(SF!StagedByte)
        /\ s \o t \in Seq(SF!StagedByte) /\ Len(s \o t) = Len(s) + Len(t)
        /\ Len(s) \in Nat /\ Len(t) \in Nat
    BY DEF Genuine
  <1>2. ASSUME NEW i \in 1..Len(s \o t) PROVE SF!WasSealed((s \o t)[i])
    <2>1. CASE i \in 1..Len(s)
      <3>1. (s \o t)[i] = s[i]
        BY <1>1, <2>1
      <3> QED
        BY <2>1, <3>1 DEF Genuine
    <2>2. CASE i \notin 1..Len(s)
      <3>1. i - Len(s) \in 1..Len(t) /\ (s \o t)[i] = t[i - Len(s)]
        BY <1>1, <2>2
      <3> QED
        BY <3>1 DEF Genuine
    <2> QED
      BY <2>1, <2>2
  <1> QED
    BY <1>1, <1>2 DEF Genuine

\* A file that is whole is the one that was sealed.
LEMMA HarmHolds ==
    ASSUME SF!StagedAssumption, SF!IInv, NEW f, SF!Harm(f), Genuine(f), Len(f) <= Len(file)
    PROVE SF!IInv'
  <1>1. writer # "writing" /\ ~harmed /\ opened.pc = "idle" /\ f # file /\ harmed' = TRUE
        /\ file' = f /\ UNCHANGED <<written, sealed, writer, opened>>
    BY DEF SF!Harm
  <1>2. f \in Seq(SF!StagedByte) /\ file \in Seq(SF!StagedByte) /\ Len(f) \in Nat /\ Len(file) \in Nat
    BY DEF Genuine, SF!IInv, SF!StagedTyped
  <1>3. SF!ReaderFollows' /\ (opened.at \in 1..Len(file) + 1)'
        /\ (opened.pc \in {"idle", "reading", "eof", "failed"})'
    BY <1>1, <1>2, IdleReaders
  <1>4. SF!StagedTyped' /\ SF!BufferFits'
    BY <1>1, <1>2 DEF SF!IInv, SF!StagedTyped, SF!BufferFits
  <1>5. SF!TypeOK'
    <2>1. /\ written \in 0..Longest /\ sealed \in 0..Longest + 1
          /\ writer \in {"writing", "closed", "crashed"} /\ Len(file) <= written + sealed
      BY DEF SF!IInv, SF!TypeOK
    <2>2. Len(f) <= written + sealed
      BY <1>2, <2>1
    <2> QED
      BY <1>1, <1>3, <2>1, <2>2 DEF SF!TypeOK
  <1>6. SF!BytesWereSealed'
    BY <1>1, <1>2 DEF Genuine, SF!BytesWereSealed, SF!WasSealed
  <1>7. ASSUME writer = "closed", SF!Whole' PROVE FALSE
    <2>1. SF!Whole
      BY <1>1 DEF SF!IInv, SF!HarmShows
    <2>2. Len(f) = Len(file)
      BY <1>1, <1>7, <2>1 DEF SF!Whole
    <2>3. ASSUME NEW i \in 1..Len(file) PROVE f[i] = file[i]
      <3>1. f[i] \in SF!StagedByte /\ file[i] \in SF!StagedByte
        BY <1>2, <2>2
      <3>2. SF!WasSealed(f[i]) /\ SF!WasSealed(file[i])
        BY <1>2, <2>2 DEF Genuine, SF!IInv, SF!BytesWereSealed
      <3>3. file[i].n * (Segment + 1) + file[i].place = i /\ file[i].sound
        BY <2>1 DEF SF!Whole, SF!InPlace
      <3>4. f[i].n * (Segment + 1) + f[i].place = i /\ f[i].sound
        BY <1>1, <1>7, <2>2 DEF SF!Whole, SF!InPlace
      <3>5. f[i].n * (Segment + 1) + f[i].place = file[i].n * (Segment + 1) + file[i].place
        BY <3>3, <3>4
      <3> QED
        BY <3>1, <3>2, <3>3, <3>4, <3>5, BytesAreUnique DEF SF!IInv
    <2>4. f = file
      BY <1>2, <2>2, <2>3
    <2> QED
      BY <1>1, <2>4
  <1>8. SF!HarmShows'
    BY <1>1, <1>7 DEF SF!HarmShows
  <1> QED
    BY <1>3, <1>4, <1>5, <1>6, <1>8 DEF SF!IInv

\* Bytes that are lost, moved or damaged show: the file is not whole any more.
LEMMA HarmsHold ==
    ASSUME SF!StagedAssumption, SF!IInv, SF!Lose \/ SF!Swap \/ SF!Damage
    PROVE SF!IInv'
  <1>1. file \in Seq(SF!StagedByte) /\ Len(file) \in Nat /\ 0 \in 0..Len(file) /\ Len(file) \in 0..Len(file)
    BY DEF SF!IInv, SF!StagedTyped
  <1>2. CASE SF!Lose
    <2>1. PICK i \in 0..Len(file), j \in 0..Len(file) : i < j /\ SF!Harm(SF!Run(0, i) \o SF!Run(j, Len(file)))
      BY <1>2 DEF SF!Lose
    <2> DEFINE s == SF!Run(0, i)
               t == SF!Run(j, Len(file))
    <2>2. Genuine(s) /\ Len(s) = i /\ Genuine(t) /\ Len(t) = Len(file) - j
      <3>1. 0 <= i /\ j <= Len(file)
        BY <1>1
      <3>2. Genuine(s) /\ Len(s) = i - 0 /\ Genuine(t) /\ Len(t) = Len(file) - j
        BY <1>1, <3>1, RunIsGenuine, Zenon
      <3> QED
        BY <3>2
    <2> HIDE DEF s, t
    <2>3. Genuine(s \o t) /\ Len(s \o t) = i + (Len(file) - j)
      BY <2>2, JoinedIsGenuine
    <2>4. Len(s \o t) <= Len(file)
      BY <1>1, <2>1, <2>3
    <2> QED
      BY <2>1, <2>3, <2>4, HarmHolds DEF s, t
  <1>3. CASE SF!Swap
    <2>1. PICK i \in 0..Len(file), j \in 0..Len(file), k \in 0..Len(file) :
              i < j /\ j < k /\ SF!Harm(SF!Run(0, i) \o SF!Run(j, k) \o SF!Run(i, j) \o SF!Run(k, Len(file)))
      BY <1>3 DEF SF!Swap
    <2> DEFINE a == SF!Run(0, i)
               b == SF!Run(j, k)
               c == SF!Run(i, j)
               d == SF!Run(k, Len(file))
    <2>2. /\ Genuine(a) /\ Len(a) = i /\ Genuine(b) /\ Len(b) = k - j
          /\ Genuine(c) /\ Len(c) = j - i /\ Genuine(d) /\ Len(d) = Len(file) - k
      <3>1. 0 <= i /\ i <= j /\ j <= k /\ k <= Len(file)
        BY <1>1, <2>1
      <3>2. Genuine(a) /\ Len(a) = i - 0 /\ Genuine(d) /\ Len(d) = Len(file) - k
        BY <1>1, <3>1, RunIsGenuine, Zenon
      <3>3. Genuine(b) /\ Len(b) = k - j /\ Genuine(c) /\ Len(c) = j - i
        BY <3>1, RunIsGenuine, Zenon
      <3> QED
        BY <3>2, <3>3
    <2> HIDE DEF a, b, c, d
    <2>3. Genuine(a \o b) /\ Len(a \o b) = i + (k - j)
      BY <2>2, JoinedIsGenuine
    <2>4. Genuine(a \o b \o c) /\ Len(a \o b \o c) = i + (k - j) + (j - i)
      BY <2>2, <2>3, JoinedIsGenuine
    <2>5. Genuine(a \o b \o c \o d) /\ Len(a \o b \o c \o d) = i + (k - j) + (j - i) + (Len(file) - k)
      BY <2>2, <2>4, JoinedIsGenuine
    <2>6. Len(a \o b \o c \o d) <= Len(file)
      BY <1>1, <2>1, <2>5
    <2> QED
      BY <2>1, <2>5, <2>6, HarmHolds DEF a, b, c, d
  <1>4. CASE SF!Damage
    <2>1. PICK n \in DOMAIN file : SF!Harm([file EXCEPT ![n].sound = FALSE])
      BY <1>4 DEF SF!Damage
    <2> DEFINE f == [file EXCEPT ![n].sound = FALSE]
    <2>2. \A i \in 1..Len(file) : SF!WasSealed(file[i]) /\ file[i] \in SF!StagedByte
      BY <1>1 DEF SF!IInv, SF!BytesWereSealed
    <2>3. f \in Seq(SF!StagedByte) /\ Len(f) = Len(file)
          /\ \A i \in 1..Len(file) : i # n => f[i] = file[i]
      <3> DEFINE b == [file[n] EXCEPT !.sound = FALSE]
      <3>1. b \in SF!StagedByte
        <4>1. file[n] \in SF!StagedByte
          BY <1>1, <2>2
        <4> QED
          BY <4>1 DEF SF!StagedByte
      <3>2. f = [file EXCEPT ![n] = b]
        OBVIOUS
      <3> HIDE DEF b, f
      <3> QED
        BY <1>1, <3>1, <3>2
    <2>4. f[n] = [file[n] EXCEPT !.sound = FALSE] /\ n \in 1..Len(file)
      BY <1>1
    <2> HIDE DEF f
    <2>5. SF!WasSealed(f[n])
      <3>1. /\ f[n].n = file[n].n /\ f[n].last = file[n].last /\ f[n].from = file[n].from
            /\ f[n].to = file[n].to /\ f[n].place = file[n].place
        BY <2>2, <2>4 DEF SF!StagedByte
      <3> QED
        BY <2>2, <2>4, <3>1 DEF SF!WasSealed
    <2>6. Genuine(f)
      BY <2>2, <2>3, <2>4, <2>5 DEF Genuine
    <2>7. SF!Harm(f) /\ Len(f) <= Len(file)
      BY <1>1, <2>1, <2>3 DEF f
    <2> QED
      BY <2>6, <2>7, HarmHolds
  <1> QED
    BY <1>2, <1>3, <1>4

----------------------------------------------------------------------------
(* Staging files: reading one. *)

\* A reader begins before the first byte (openStaging).
LEMMA OpenHolds ==
    ASSUME SF!StagedAssumption, SF!IInv, SF!Open
    PROVE SF!IInv'
  <1>1. writer # "writing" /\ opened = SF!NoReader /\ opened' = [opened EXCEPT !.pc = "reading"]
        /\ UNCHANGED <<written, sealed, file, writer, harmed>>
    BY DEF SF!Open, SF!IInv, SF!ReaderFollows
  <1>2. opened' = [pc |-> "reading", at |-> 1, segment |-> 0, content |-> <<>>]
    BY <1>1 DEF SF!NoReader
  <1>3. file \in Seq(SF!StagedByte) /\ Len(file) \in Nat /\ written \in Nat /\ Segment \in Nat
    BY DEF SF!IInv, SF!StagedTyped, SF!StagedAssumption
  <1>4. SF!StagedTyped' /\ SF!TypeOK'
    BY <1>1, <1>2, <1>3 DEF SF!IInv, SF!StagedTyped, SF!TypeOK
  <1>5. SF!BufferFits' /\ SF!BytesWereSealed' /\ SF!HarmShows'
    BY <1>1 DEF SF!IInv, SF!BufferFits, SF!BytesWereSealed, SF!WasSealed, SF!HarmShows, SF!Whole, SF!InPlace
  <1>6. SF!ReaderFollows'
    BY <1>1, <1>2, <1>3 DEF SF!ReaderFollows, SF!InPlace, SF!FirstBytes
  <1> QED
    BY <1>4, <1>5, <1>6 DEF SF!IInv

\* The lesser of two numbers.
LEMMA LesserOfTwo ==
    ASSUME NEW a \in Int, NEW b \in Int
    PROVE SF!Min({a, b}) = IF a <= b THEN a ELSE b
  BY DEF SF!Min

\* What a reader takes next.
Taken == SubSeq(file, opened.at, SF!Min({opened.at + Segment, Len(file)}))

\* The reader takes a segment's bytes, or as many as are left.
LEMMA TakenIs ==
    ASSUME SF!StagedAssumption, SF!IInv, opened.pc = "reading", NEW L,
           L = IF opened.at + Segment <= Len(file) THEN Segment + 1 ELSE Len(file) + 1 - opened.at
    PROVE /\ Taken \in Seq(SF!StagedByte) /\ L \in Nat /\ Len(Taken) = L
          /\ \A k \in 1..L : opened.at + k - 1 \in 1..Len(file) /\ Taken[k] = file[opened.at + k - 1]
  <1>1. file \in Seq(SF!StagedByte) /\ Len(file) \in Nat /\ Segment \in Nat /\ opened.at \in 1..Len(file) + 1
    BY DEF SF!IInv, SF!StagedTyped, SF!TypeOK, SF!StagedAssumption
  <1> DEFINE at == opened.at
             e == at + L - 1
             m == SF!Min({at + Segment, Len(file)})
  <1>2. L \in Nat /\ at \in 1..Len(file) + 1 /\ e \in 0..Len(file) /\ e - at + 1 = L
    <2>1. L = IF at + Segment <= Len(file) THEN Segment + 1 ELSE Len(file) + 1 - at
      OBVIOUS
    <2>2. at \in Nat /\ at >= 1 /\ at <= Len(file) + 1 /\ Len(file) \in Nat
      BY <1>1
    <2> HIDE DEF at
    <2>3. L \in Nat /\ at + L <= Len(file) + 1
      BY <1>1, <2>1, <2>2
    <2>4. ASSUME NEW a \in Nat, NEW l \in Nat, NEW n \in Nat, a >= 1, a + l <= n + 1
          PROVE a \in 1..n + 1 /\ a + l - 1 \in 0..n /\ (a + l - 1) - a + 1 = l
      BY <2>4
    <2> QED
      BY <2>2, <2>3, <2>4, Zenon
  <1>3. m = e
    <2>1. m = IF at + Segment <= Len(file) THEN at + Segment ELSE Len(file)
      <3>1. at + Segment \in Int /\ Len(file) \in Int
        BY <1>1
      <3> QED
        BY <3>1, LesserOfTwo
    <2> HIDE DEF m
    <2> QED
      BY <1>1, <2>1
  <1>4. Taken = SubSeq(file, at, e)
    BY <1>3 DEF Taken
  <1> HIDE DEF at, e
  <1>5. /\ SubSeq(file, at, e) \in Seq(SF!StagedByte) /\ Len(SubSeq(file, at, e)) = e - at + 1
        /\ \A k \in 1..(e - at + 1) : SubSeq(file, at, e)[k] = file[at + k - 1]
    BY <1>1, <1>2
  <1>6. \A k \in 1..L : at + k - 1 \in 1..Len(file)
    BY <1>1, <1>2
  <1> QED
    BY <1>2, <1>4, <1>5, <1>6 DEF at

\* A segment that opens is the next one, in its place.
LEMMA OpenedIs ==
    ASSUME SF!StagedAssumption, SF!IInv, opened.pc = "reading", NEW last \in BOOLEAN,
           last <=> opened.at + Len(Taken) > Len(file), SF!Opens(Taken, opened.segment, last)
    PROVE /\ SF!InPlace(opened.at + Len(Taken) - 1) /\ Len(Taken) \in Nat \ {0}
          /\ SF!Content(Taken) = [k \in 1..(Len(Taken) - 1) |-> opened.segment * Segment + k]
          /\ ~last => /\ Len(Taken) = Segment + 1 /\ opened.at + Len(Taken) <= Len(file)
                      /\ opened.segment * Segment + Segment <= written
          /\ last => /\ writer = "closed" /\ SF!Whole
                     /\ opened.at + Len(Taken) = Len(file) + 1
                     /\ opened.segment * Segment + Len(Taken) - 1 = written
  <1> DEFINE at == opened.at
             s == opened.segment
             L == Len(Taken)
             b == Taken[1]
             M == b.to - b.from + 2
  <1>1. /\ file \in Seq(SF!StagedByte) /\ Len(file) \in Nat /\ Segment \in Nat \ {0} /\ at \in 1..Len(file) + 1
        /\ s \in Nat /\ written \in Nat /\ sealed \in Nat /\ s * Segment \in Nat
    BY NextSegment DEF SF!IInv, SF!StagedTyped, SF!TypeOK, SF!StagedAssumption
  <1>2. at = s * Segment + s + 1 /\ SF!InPlace(at - 1)
    BY <1>1, NextSegment DEF SF!IInv, SF!ReaderFollows
  <1>3. /\ Taken \in Seq(SF!StagedByte) /\ L \in Nat
        /\ \A k \in 1..L : at + k - 1 \in 1..Len(file) /\ Taken[k] = file[at + k - 1]
    BY TakenIs
  <1>4. Taken # <<>> /\ b.n = s /\ b.last = last /\ Taken = SF!Sealed(s, last, b.from, b.to)
    BY DEF SF!Opens
  <1>5. L # 0 /\ 1 \in 1..L
    BY <1>3, <1>4
  <1>6. b \in SF!StagedByte /\ SF!WasSealed(b)
    <2>1. at \in 1..Len(file) /\ b = file[at]
      BY <1>1, <1>3, <1>5
    <2> QED
      BY <1>1, <2>1 DEF SF!IInv, SF!BytesWereSealed
  <1> HIDE DEF b, L, at, s
  <1>7. b.place \in 1..M /\ b.from \in Nat /\ b.to \in Nat /\ b.from = s * Segment + 1
    BY <1>4, <1>6 DEF SF!WasSealed, SF!StagedByte
  <1>8. L = M
    <2>1. DOMAIN Taken = 1..M
      BY <1>4 DEF SF!Sealed
    <2>2. DOMAIN Taken = 1..L
      BY <1>3 DEF L
    <2>3. M \in Nat /\ L \in Nat
      BY <1>3, <1>7
    <2> HIDE DEF M
    <2> QED
      BY <2>1, <2>2, <2>3
  <1>9. \A k \in 1..L : Taken[k].n = s /\ Taken[k].place = k /\ Taken[k].sound
    BY <1>4, <1>8 DEF SF!Sealed
  <1>10. SF!InPlace(at + L - 1)
    <2> SUFFICES ASSUME NEW i \in 1..at + L - 1
                 PROVE file[i].n * (Segment + 1) + file[i].place = i /\ file[i].sound
      BY DEF SF!InPlace
    <2>1. CASE i \in 1..at - 1
      BY <1>2, <2>1 DEF SF!InPlace
    <2>2. CASE i \notin 1..at - 1
      <3> DEFINE k == i - at + 1
      <3>1. k \in 1..L /\ at + k - 1 = i
        BY <1>1, <1>3, <2>2
      <3> HIDE DEF k
      <3>2. file[i].n = s /\ file[i].place = k /\ file[i].sound
        BY <1>3, <1>9, <3>1
      <3>3. s * (Segment + 1) = s * Segment + s
        BY <1>1, NextSegment
      <3> QED
        BY <1>1, <1>2, <3>1, <3>2, <3>3
    <2> QED
      BY <2>1, <2>2
  <1>11. SF!Content(Taken) = [k \in 1..(L - 1) |-> s * Segment + k]
    <2>1. \A k \in 1..(L - 1) : b.from + k - 1 = s * Segment + k
      BY <1>1, <1>3, <1>7
    <2> QED
      BY <2>1 DEF SF!Content, b, L
  <1>12. ASSUME ~last
         PROVE L = Segment + 1 /\ at + L <= Len(file) /\ s * Segment + Segment <= written
    <2>1. b.to = s * Segment + Segment
      BY <1>4, <1>6, <1>12, BytesOfSegments DEF SF!IInv
    <2>2. b.to <= written
      BY <1>6 DEF SF!WasSealed
    <2>3. L = Segment + 1
      BY <1>1, <1>7, <1>8, <2>1
    <2>4. at + L <= Len(file)
      BY <1>1, <1>3, <1>12 DEF L, at
    <2> QED
      BY <2>1, <2>2, <2>3, <2>4
  <1>13. ASSUME last
         PROVE writer = "closed" /\ SF!Whole /\ at + L = Len(file) + 1 /\ s * Segment + L - 1 = written
    <2>1. writer = "closed" /\ s = sealed - 1 /\ b.to = written
      BY <1>4, <1>6, <1>13 DEF SF!WasSealed
    <2>2. at + L > Len(file) /\ at + L - 1 <= Len(file)
      <3>1. at + L - 1 \in 1..Len(file)
        <4>1. L \in 1..L
          BY <1>3, <1>5
        <4> QED
          BY <1>3, <4>1
      <3> QED
        BY <1>13, <3>1 DEF at, L
    <2>3. at + L = Len(file) + 1
      BY <1>1, <1>3, <2>2
    <2>4. L = written - s * Segment + 1
      BY <1>1, <1>7, <1>8, <2>1
    <2>5. Len(file) = sealed + written
      BY <1>1, <1>2, <2>1, <2>3, <2>4
    <2>6. at + L - 1 = Len(file)
      BY <1>1, <1>3, <2>3
    <2>7. SF!Whole
      BY <1>10, <2>1, <2>5, <2>6 DEF SF!Whole
    <2> QED
      BY <1>1, <2>1, <2>3, <2>4, <2>7
  <1> QED
    BY <1>3, <1>5, <1>10, <1>11, <1>12, <1>13 DEF at, s, L

\* A reader of a file that is as its writer closed it opens what it takes.
LEMMA WholeOpens ==
    ASSUME SF!StagedAssumption, SF!IInv, opened.pc = "reading", writer = "closed", ~harmed,
           NEW last \in BOOLEAN, last <=> opened.at + Len(Taken) > Len(file)
    PROVE SF!Opens(Taken, opened.segment, last)
  <1> DEFINE at == opened.at
             s == opened.segment
             L == IF at + Segment <= Len(file) THEN Segment + 1 ELSE Len(file) + 1 - at
             b == file[at]
             D == Segment + 1
  <1>1. /\ file \in Seq(SF!StagedByte) /\ Len(file) \in Nat /\ Segment \in Nat \ {0} /\ at \in 1..Len(file) + 1
        /\ s \in Nat /\ written \in Nat /\ sealed \in Nat /\ s * Segment \in Nat
    BY NextSegment DEF SF!IInv, SF!StagedTyped, SF!TypeOK, SF!StagedAssumption
  <1>2. at = s * D + 1 /\ s * D = s * Segment + s
    BY <1>1, NextSegment DEF SF!IInv, SF!ReaderFollows
  <1>3. Len(file) = sealed + written /\ sealed >= 1
        /\ \A i \in 1..Len(file) : file[i].n * D + file[i].place = i /\ file[i].sound
    BY <1>1 DEF SF!IInv, SF!HarmShows, SF!Whole, SF!InPlace, SF!BufferFits
  <1>4. at \in 1..Len(file)
    BY <1>1, <1>2, <1>3 DEF SF!IInv, SF!ReaderFollows
  <1>5. /\ Taken \in Seq(SF!StagedByte) /\ L \in Nat /\ Len(Taken) = L
        /\ \A k \in 1..L : at + k - 1 \in 1..Len(file) /\ Taken[k] = file[at + k - 1]
    BY TakenIs
  <1>6. \A i \in 1..Len(file) :
            /\ file[i] \in SF!StagedByte /\ SF!WasSealed(file[i])
            /\ file[i].n \in Nat /\ file[i].place \in 1..D
    <2> SUFFICES ASSUME NEW i \in 1..Len(file)
                 PROVE file[i] \in SF!StagedByte /\ SF!WasSealed(file[i])
                       /\ file[i].n \in Nat /\ file[i].place \in 1..D
      OBVIOUS
    <2>1. file[i] \in SF!StagedByte /\ SF!WasSealed(file[i])
      BY <1>1 DEF SF!IInv, SF!BytesWereSealed
    <2> QED
      BY <2>1, BytesOfSegments DEF SF!IInv, SF!StagedByte
  <1>7. L \in 1..D /\ 1 \in 1..D /\ D \in Nat /\ at + L - 1 <= Len(file)
    <2> HIDE DEF at, s
    <2> QED
      BY <1>1, <1>4
  <1>8. last <=> at + L > Len(file)
    BY <1>5
  <1> HIDE DEF at, s, L, D
  <1>9. ASSUME NEW k \in 1..L
        PROVE Taken[k].n = s /\ Taken[k].place = k /\ Taken[k].sound /\ Taken[k] \in SF!StagedByte
              /\ SF!WasSealed(Taken[k])
    <2> DEFINE i == at + k - 1
    <2>1. i \in 1..Len(file) /\ Taken[k] = file[i]
      BY <1>5
    <2>2. k \in 1..D
      BY <1>7
    <2>3. s * D \in Nat
      BY <1>1, <1>2
    <2>4. i = s * D + k
      BY <1>2, <2>2, <2>3
    <2> HIDE DEF i
    <2>5. file[i].n * D + file[i].place = s * D + k /\ file[i].sound
      BY <1>3, <2>1, <2>4
    <2>6. file[i].n \in Nat /\ file[i].place \in 1..D /\ s \in Nat /\ D \in Nat
      BY <1>1, <1>6, <1>7, <2>1
    <2>7. file[i].n = s /\ file[i].place = k
      <3>1. \A m \in Nat, p \in 1..D : m * D + p = s * D + k => m = s /\ p = k
        BY <2>2, <2>6, PlacesAreUnique
      <3> QED
        BY <2>5, <2>6, <3>1
    <2> QED
      BY <1>6, <2>1, <2>5, <2>7
  <1>10. Taken[1] = b /\ b.n = s /\ b \in SF!StagedByte /\ SF!WasSealed(b) /\ b.last \in BOOLEAN
    <2>1. 1 \in 1..L /\ at + 1 - 1 = at
      BY <1>1, <1>7
    <2>2. Taken[1] = file[at]
      BY <1>5, <2>1
    <2>3. b = file[at]
      BY DEF at
    <2> HIDE DEF b
    <2>4. b.n = s /\ b \in SF!StagedByte /\ SF!WasSealed(b)
      BY <1>9, <2>1, <2>2, <2>3
    <2> QED
      BY <2>2, <2>3, <2>4 DEF SF!StagedByte
  <1> DEFINE P == s * Segment
  <1>11. P \in Nat /\ at = P + s + 1
    BY <1>1, <1>2
  <1> HIDE DEF b, P
  <1>12. b.last = last /\ L = b.to - b.from + 2
    <2>1. CASE b.last
      <3>1. s = sealed - 1 /\ b.to = written /\ b.from = P + 1
        BY <1>10, <2>1 DEF SF!WasSealed, P
      <3>2. written <= P + Segment /\ P <= written
        BY <1>10, <2>1, BytesOfSegments DEF SF!IInv, P
      <3>3. Len(file) = at + (written - P)
        BY <1>1, <1>3, <1>11, <3>1
      <3>4. L = written - P + 1
        <4>1. CASE at + Segment <= Len(file)
          <5>1. L = Segment + 1 /\ Segment = written - P
            BY <1>1, <1>11, <3>2, <3>3, <4>1 DEF L
          <5> QED
            BY <5>1
        <4>2. CASE ~(at + Segment <= Len(file))
          BY <1>1, <1>11, <3>2, <3>3, <4>2 DEF L
        <4> QED
          BY <4>1, <4>2
      <3>5. at + L > Len(file)
        BY <1>1, <1>11, <3>2, <3>3, <3>4
      <3>6. last = TRUE /\ b.last = TRUE
        BY <1>8, <1>10, <2>1, <3>5
      <3>7. L = b.to - b.from + 2
        BY <1>1, <1>11, <3>1, <3>4
      <3> QED
        BY <3>6, <3>7
    <2>2. CASE ~b.last
      <3>1. b.to = P + Segment /\ b.from = P + 1
        BY <1>10, <2>2, BytesOfSegments DEF SF!IInv, SF!WasSealed, P
      <3>2. s < sealed - 1 /\ sealed - 1 \in Nat
        BY <1>1, <1>3, <1>10, <2>2 DEF SF!WasSealed
      <3>3. P + Segment <= (sealed - 1) * Segment
        BY <1>1, <3>2, MoreSegments DEF P
      <3>4. (sealed - 1) * Segment <= written /\ (sealed - 1) * Segment \in Nat
        BY <3>2, NextSegment DEF SF!IInv, SF!BufferFits
      <3>5. P + Segment <= written
        BY <1>1, <1>11, <3>3, <3>4
      <3>6. at + Segment + 1 <= Len(file)
        BY <1>1, <1>3, <1>11, <3>2, <3>5
      <3>7. L = Segment + 1
        BY <1>1, <3>6 DEF L
      <3>8. ~(at + L > Len(file))
        BY <1>1, <3>6, <3>7
      <3>9. b.last = FALSE /\ last = FALSE
        BY <1>8, <1>10, <2>2, <3>8
      <3>10. L = b.to - b.from + 2
        BY <1>1, <1>11, <3>1, <3>7
      <3> QED
        BY <3>9, <3>10
    <2> QED
      BY <2>1, <2>2
  <1>13. Taken = SF!Sealed(s, last, b.from, b.to)
    <2>1. ASSUME NEW k \in 1..L
          PROVE Taken[k] = [n |-> s, last |-> last, from |-> b.from, to |-> b.to, place |-> k, sound |-> TRUE]
      <3>1. Taken[k].last = last /\ Taken[k].from = b.from /\ Taken[k].to = b.to
        BY <1>9, <1>10, <1>12, SameSegment
      <3> QED
        BY <1>9, <3>1 DEF SF!StagedByte
    <2> QED
      BY <1>5, <1>12, <2>1 DEF SF!Sealed
  <1>14. Taken # <<>>
    BY <1>5, <1>7
  <1> QED
    BY <1>10, <1>12, <1>13, <1>14 DEF SF!Opens, s

\* Numbers counted from one, and on from there.
LEMMA CountedOn ==
    ASSUME NEW a \in Seq(Nat), NEW b \in Seq(Nat), NEW m \in Nat, NEW n \in Nat,
           Len(a) = m, Len(b) = n, \A k \in 1..m : a[k] = k, \A k \in 1..n : b[k] = m + k
    PROVE a \o b \in Seq(Nat) /\ SF!FirstBytes(a \o b, m + n)
  <1>1. a \o b \in Seq(Nat) /\ Len(a \o b) = m + n
    OBVIOUS
  <1>2. ASSUME NEW k \in 1..(m + n) PROVE (a \o b)[k] = k
    <2>1. CASE k <= m
      BY <2>1
    <2>2. CASE k > m
      <3>1. k - m \in 1..n /\ (a \o b)[k] = b[k - m]
        BY <2>2
      <3> QED
        BY <3>1
    <2> QED
      BY <2>1, <2>2
  <1> QED
    BY <1>1, <1>2 DEF SF!FirstBytes

\* A segment is opened, or refused because the file is not as it was closed (next).
LEMMA ReadSegmentHolds ==
    ASSUME SF!StagedAssumption, SF!IInv, SF!ReadSegment
    PROVE SF!IInv'
  <1> DEFINE L == Len(Taken)
             last == opened.at + L > Len(file)
             s == opened.segment
  <1>1. /\ opened.pc = "reading" /\ UNCHANGED <<written, sealed, file, writer, harmed>>
        /\ opened' = IF SF!Opens(Taken, s, last)
                     THEN [pc |-> IF last THEN "eof" ELSE "reading", at |-> opened.at + L,
                           segment |-> s + 1, content |-> opened.content \o SF!Content(Taken)]
                     ELSE [opened EXCEPT !.pc = "failed"]
    BY DEF SF!ReadSegment, Taken
  <1>2. /\ file \in Seq(SF!StagedByte) /\ Len(file) \in Nat /\ opened.at \in 1..Len(file) + 1
        /\ s \in Nat /\ written \in Nat /\ opened.content \in Seq(Nat) /\ Segment \in Nat
        /\ opened \in [pc : {"idle", "reading", "eof", "failed"}, at : Nat, segment : Nat,
                       content : Seq(Nat)]
    BY DEF SF!IInv, SF!StagedTyped, SF!TypeOK, SF!StagedAssumption
  <1>3. /\ opened.at = s * (Segment + 1) + 1 /\ writer # "writing"
        /\ s * Segment <= written /\ SF!FirstBytes(opened.content, s * Segment)
    BY <1>1 DEF SF!IInv, SF!ReaderFollows
  <1>4. /\ s * Segment \in Nat /\ (s + 1) * Segment = s * Segment + Segment
        /\ (s + 1) * (Segment + 1) = s * Segment + s + Segment + 1
        /\ s * (Segment + 1) = s * Segment + s
    BY <1>2, NextSegment
  <1>5. last \in BOOLEAN
    OBVIOUS
  <1>6. /\ written' = written /\ sealed' = sealed /\ file' = file /\ writer' = writer /\ harmed' = harmed
    BY <1>1
  <1>7. SF!BufferFits' /\ SF!BytesWereSealed' /\ SF!HarmShows'
    BY <1>6 DEF SF!IInv, SF!BufferFits, SF!BytesWereSealed, SF!WasSealed, SF!HarmShows, SF!Whole, SF!InPlace
  <1>8. CASE SF!Opens(Taken, s, last)
    <2>1. /\ SF!InPlace(opened.at + L - 1) /\ L \in Nat \ {0}
          /\ SF!Content(Taken) = [k \in 1..(L - 1) |-> s * Segment + k]
          /\ ~last => /\ L = Segment + 1 /\ opened.at + L <= Len(file)
                      /\ s * Segment + Segment <= written
          /\ last => /\ writer = "closed" /\ SF!Whole
                     /\ opened.at + L = Len(file) + 1
                     /\ s * Segment + L - 1 = written
      BY <1>1, <1>5, <1>8, OpenedIs
    <2> DEFINE c == opened.content \o SF!Content(Taken)
    <2>2. opened' = [pc |-> IF last THEN "eof" ELSE "reading", at |-> opened.at + L,
                     segment |-> s + 1, content |-> c]
      BY <1>1, <1>8
    <2> HIDE DEF L, s
    <2>3. c \in Seq(Nat) /\ SF!FirstBytes(c, s * Segment + (L - 1))
      <3> DEFINE P == s * Segment
                 t == SF!Content(Taken)
      <3>1. P \in Nat /\ opened.content \in Seq(Nat) /\ Len(opened.content) = P
            /\ \A k \in 1..P : opened.content[k] = k
        BY <1>2, <1>3, <1>4 DEF SF!FirstBytes
      <3>2. t = [k \in 1..(L - 1) |-> P + k] /\ L - 1 \in Nat
        BY <2>1
      <3> HIDE DEF P, t
      <3>3. t \in Seq(Nat) /\ Len(t) = L - 1 /\ \A k \in 1..(L - 1) : t[k] = P + k
        BY <3>1, <3>2
      <3>4. opened.content \o t \in Seq(Nat) /\ SF!FirstBytes(opened.content \o t, P + (L - 1))
        BY <3>1, <3>2, <3>3, CountedOn
      <3> QED
        BY <3>4 DEF P, t
    <2> HIDE DEF c
    <2>4. opened.at + L \in 1..Len(file) + 1 /\ opened.at + L \in Nat /\ s + 1 \in Nat
      BY <1>2, <2>1
    <2>5. SF!StagedTyped' /\ SF!TypeOK'
      BY <1>2, <1>6, <2>2, <2>3, <2>4 DEF SF!IInv, SF!StagedTyped, SF!TypeOK
    <2>6. CASE last
      <3>1. opened'.pc = "eof" /\ opened'.content = c
        BY <2>2, <2>6
      <3>2. s * Segment + (L - 1) = written
        BY <1>2, <1>4, <2>1, <2>6
      <3>3. SF!FirstBytes(c, written) /\ writer = "closed" /\ SF!Whole
        BY <2>1, <2>3, <2>6, <3>2
      <3>4. SF!Whole'
        BY <1>6, <3>3 DEF SF!Whole, SF!InPlace
      <3>5. SF!FirstBytes(opened'.content, written')
        BY <1>6, <3>1, <3>3
      <3>6. SF!ReaderFollows'
        BY <1>3, <1>6, <3>1, <3>3, <3>4, <3>5 DEF SF!ReaderFollows, SF!FirstBytes
      <3> QED
        BY <1>7, <2>5, <3>6 DEF SF!IInv
    <2>7. CASE ~last
      <3>1. opened' = [pc |-> "reading", at |-> opened.at + L, segment |-> s + 1, content |-> c]
        BY <2>2, <2>7
      <3>2. /\ opened.at + L = (s + 1) * (Segment + 1) + 1 /\ opened.at + L <= Len(file)
            /\ (s + 1) * Segment <= written
            /\ s * Segment + (L - 1) = (s + 1) * Segment
        BY <1>2, <1>3, <1>4, <2>1, <2>7
      <3>3. SF!FirstBytes(c, (s + 1) * Segment)
        BY <2>3, <3>2
      <3>4. \A i \in 1..(opened'.at - 1) : file'[i].n * (Segment + 1) + file'[i].place = i /\ file'[i].sound
        <4> DEFINE now == opened'.at
                   before == opened.at
        <4>1. now = before + L /\ before \in Nat /\ L \in Nat
          BY <1>2, <2>1, <3>1
        <4>2. file' = file
          BY <1>6
        <4>3. \A i \in 1..(before + L - 1) : file[i].n * (Segment + 1) + file[i].place = i /\ file[i].sound
          BY <2>1 DEF SF!InPlace
        <4> HIDE DEF now, before
        <4>4. \A i \in 1..(now - 1) : file[i].n * (Segment + 1) + file[i].place = i /\ file[i].sound
          BY <4>1, <4>3
        <4> QED
          BY <4>2, <4>4 DEF now
      <3>5. SF!ReaderFollows'
        <4>1. opened'.pc = "reading" /\ opened'.at = opened.at + L /\ opened'.segment = s + 1
              /\ opened'.content = c
          BY <3>1
        <4>2. /\ opened'.at = opened'.segment * (Segment + 1) + 1 /\ opened'.at <= Len(file) + 1
              /\ opened'.at <= Len(file)
              /\ opened'.segment * Segment <= written
              /\ SF!FirstBytes(opened'.content, opened'.segment * Segment)
          BY <1>2, <2>4, <3>2, <3>3, <4>1
        <4>3. /\ opened'.pc = "reading" /\ writer' # "writing"
              /\ opened'.at = opened'.segment * (Segment + 1) + 1 /\ opened'.at <= Len(file') + 1
              /\ opened'.at <= Len(file')
              /\ opened'.segment * Segment <= written'
              /\ SF!FirstBytes(opened'.content, opened'.segment * Segment)
          BY <1>3, <1>6, <4>1, <4>2
        <4> QED
          BY <3>4, <4>3 DEF SF!ReaderFollows, SF!FirstBytes, SF!InPlace
      <3> QED
        BY <1>7, <2>5, <3>5 DEF SF!IInv
    <2> QED
      BY <2>6, <2>7
  <1>9. CASE ~SF!Opens(Taken, s, last)
    <2>1. opened' = [opened EXCEPT !.pc = "failed"]
      BY <1>1, <1>9
    <2>2. opened'.pc = "failed" /\ opened'.at = opened.at /\ opened'.content = opened.content
      BY <1>2, <2>1
    <2>3. writer = "crashed" \/ harmed
      <3>1. ASSUME writer = "closed", ~harmed PROVE FALSE
        BY <1>1, <1>5, <1>9, <3>1, WholeOpens
      <3> QED
        BY <1>3, <3>1 DEF SF!IInv, SF!TypeOK
    <2>4. SF!StagedTyped' /\ SF!TypeOK'
      BY <1>2, <1>6, <2>1, <2>2 DEF SF!IInv, SF!StagedTyped, SF!TypeOK
    <2>5. Len(opened.content) <= written /\ SF!FirstBytes(opened.content, Len(opened.content))
      BY <1>3 DEF SF!FirstBytes
    <2>6. SF!ReaderFollows'
      BY <1>3, <1>6, <2>2, <2>3, <2>5 DEF SF!ReaderFollows, SF!FirstBytes
    <2> QED
      BY <1>7, <2>4, <2>6 DEF SF!IInv
  <1> QED
    BY <1>8, <1>9

----------------------------------------------------------------------------
(* Staging files: theorems. *)

\* A file is empty at first.
LEMMA StagedInit ==
    ASSUME SF!StagedAssumption, SF!Init
    PROVE SF!IInv
  <1>1. /\ written = 0 /\ sealed = 0 /\ file = <<>> /\ writer = "writing" /\ harmed = FALSE
        /\ opened = [pc |-> "idle", at |-> 1, segment |-> 0, content |-> <<>>]
    BY DEF SF!Init, SF!NoReader
  <1>5. <<>> \in Seq(SF!StagedByte) /\ <<>> \in Seq(Nat) /\ Len(file) = 0
    BY <1>1
  <1>6. SF!StagedTyped
    BY <1>1, <1>5 DEF SF!StagedTyped
  <1>7. SF!TypeOK
    <2>1. 0 \in 0..Longest /\ 0 \in 0..Longest + 1 /\ 1 \in 1..Len(file) + 1 /\ Len(file) <= 0 + 0
      BY <1>5 DEF SF!StagedAssumption
    <2>2. opened.pc = "idle" /\ opened.at = 1
      BY <1>1
    <2> QED
      BY <1>1, <2>1, <2>2 DEF SF!TypeOK
  <1>2. SF!BufferFits
    BY DEF SF!Init, SF!BufferFits, SF!StagedAssumption
  <1>3. SF!BytesWereSealed /\ SF!HarmShows
    <2>1. sealed * Segment = 0
      BY DEF SF!Init, SF!StagedAssumption
    <2> QED
      BY <2>1 DEF SF!Init, SF!BytesWereSealed, SF!HarmShows, SF!Whole, SF!InPlace
  <1>4. SF!ReaderFollows
    BY DEF SF!Init, SF!NoReader, SF!ReaderFollows
  <1> QED
    BY <1>2, <1>3, <1>4, <1>6, <1>7 DEF SF!IInv

\* Every step keeps the invariant.
LEMMA StagedStep ==
    ASSUME SF!StagedAssumption, SF!IInv, [SF!Next]_SF!vars
    PROVE SF!IInv'
  <1>1. CASE \E n \in 1..Segment : SF!Write(n)
    BY <1>1, WriteHolds
  <1>2. CASE SF!Lose \/ SF!Swap \/ SF!Damage
    BY <1>2, HarmsHold
  <1>3. CASE SF!Discard
    <2>1. SF!Init'
      BY <1>3 DEF SF!Discard, SF!Init, SF!NoReader
    <2> QED
      BY <2>1, StagedInit, PTL
  <1>4. CASE UNCHANGED SF!vars
    BY <1>4 DEF SF!vars, SF!IInv, SF!TypeOK, SF!StagedTyped, SF!BufferFits, SF!BytesWereSealed, SF!WasSealed,
                SF!HarmShows, SF!Whole, SF!InPlace, SF!ReaderFollows
  <1> QED
    BY <1>1, <1>2, <1>3, <1>4, CloseHolds, CrashHolds, OpenHolds, ReadSegmentHolds DEF SF!Next

\* Bytes say where they belong, a harm shows, and a reader has opened what is
\* before it (sealedWriter, sealedReader), for segments and contents of any size.
THEOREM StagedInvariantHolds ==
    ASSUME SF!StagedAssumption
    PROVE SF!Spec => []SF!IInv
  <1>1. SF!Init => SF!IInv
    BY StagedInit
  <1>2. SF!IInv /\ [SF!Next]_SF!vars => SF!IInv'
    BY StagedStep
  <1> QED
    BY <1>1, <1>2, PTL DEF SF!Spec

\* A staging file that is read to its end was closed by its writer and is what
\* was written, whatever happened to it since; one that is as it was closed is
\* never refused (segmentNonce, next).
THEOREM StagedContentStaysWhole ==
    ASSUME SF!StagedAssumption
    PROVE SF!Spec => []SF!StagedContentIsWhole
  <1>1. SF!IInv => SF!StagedContentIsWhole
    <2> SUFFICES ASSUME SF!IInv PROVE SF!StagedContentIsWhole
      OBVIOUS
    <2>1. written \in Nat /\ opened.content \in Seq(Nat) /\ opened.pc \in {"idle", "reading", "eof", "failed"}
      BY DEF SF!IInv, SF!StagedTyped
    <2>2. Len(opened.content) <= written /\ SF!FirstBytes(opened.content, Len(opened.content))
      BY <2>1 DEF SF!IInv, SF!ReaderFollows, SF!FirstBytes, SF!NoReader
    <2>3. SF!IsPrefix(opened.content, [k \in 1..written |-> k])
      BY <2>1, <2>2 DEF SF!IsPrefix, SF!FirstBytes
    <2>4. opened.pc = "eof" => writer = "closed" /\ ~harmed /\ Len(opened.content) = written
      BY DEF SF!IInv, SF!ReaderFollows, SF!HarmShows, SF!FirstBytes
    <2>5. opened.pc = "failed" => writer = "crashed" \/ harmed
      BY DEF SF!IInv, SF!ReaderFollows
    <2> QED
      BY <2>3, <2>4, <2>5 DEF SF!StagedContentIsWhole
  <1> QED
    BY <1>1, StagedInvariantHolds, PTL
==============================================================================
