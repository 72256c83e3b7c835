--------------------------------- MODULE Keys ---------------------------------
(***************************************************************************)
(* The keys of a server: those content is sealed under                     *)
(* (storage.encryption_keys; internal/cas/crypt.go, CheckKeys) and those   *)
(* the secrets of S3 keys are (auth.credential_keys; SealStoredCredentials *)
(* in internal/s3/credential.go).  Instances start, check what is stored   *)
(* against their keys, seal the secrets again under their first one, serve *)
(* and stop, while a change of the lists is rolled out in steps.           *)
(*                                                                         *)
(* Both lists go through the same steps, and a list is of names.  Under a  *)
(* name of a content key an instance may be given another key by mistake;  *)
(* every instance is given the same credential keys (nothing checks it).   *)
(* An instance may be started before the one it replaces is stopped.       *)
(***************************************************************************)
EXTENDS Naturals, Sequences, Functions

CONSTANTS
    Instance,   \* server processes
    Lists,      \* the lists that are rolled out, one after another: sequences of names
    Mistakable, \* names under which an instance may be given another key
    Secret      \* S3 keys: numbers, in the order of their access key ids

VARIABLES
    rollout,    \* the list that is being rolled out
    instance,   \* the processes
    recorded,   \* table storage_keys: the key of each name
    inUse,      \* the keys some xorb is sealed under (xorbs.key_id), and Clear
    secrets     \* what each secret is sealed under, "plain" or "absent"

vars == <<rollout, instance, recorded, inUse, secrets>>

\* A key is its name and what it really is.
KeyNamed(id, wrong) == [id |-> id, wrong |-> wrong]
Clear == KeyNamed("clear", FALSE)

\* An instance: its list, the names its keys are not the right ones of, the
\* secrets it has listed to seal again with what they are under, those among
\* them that changed since, and the xorb and the S3 key it is about to store.
NoSecret == 0
Down == [pc |-> "down", list |-> <<>>, wrong |-> {}, todo |-> [s \in {} |-> ""],
         stale |-> {}, writing |-> FALSE, minting |-> NoSecret]

Ids(i) == Range(instance[i].list)
Keys(i) == {KeyNamed(id, id \in instance[i].wrong) : id \in Ids(i)}
IsCurrent(i, id) == instance[i].list # <<>> /\ id = Head(instance[i].list)

Init ==
    /\ rollout = 1
    /\ instance = [i \in Instance |-> Down]
    /\ recorded = {}
    /\ inUse = {}
    /\ secrets = [s \in Secret |-> "plain"]

----------------------------------------------------------------------------
(* Rolling out: the next list once no instance runs with the one before. *)

RollOut ==
    /\ rollout < Len(Lists)
    /\ \A i \in Instance : instance[i].pc = "down" \/ instance[i].list = Lists[rollout]
    /\ rollout' = rollout + 1
    /\ UNCHANGED <<instance, recorded, inUse, secrets>>

Becomes(i, p) == instance' = [instance EXCEPT ![i] = p]
Goes(i, pc) == instance' = [instance EXCEPT ![i].pc = pc]

\* run: with keys, they are recorded first.
Start(i, n, wrong) ==
    /\ instance[i].pc = "down"
    /\ n \in {rollout - 1, rollout} \cap DOMAIN Lists
    /\ wrong \subseteq Range(Lists[n])
    /\ Becomes(i, [Down EXCEPT
          !.pc = IF Lists[n] = <<>> THEN "stored" ELSE "record", !.list = Lists[n], !.wrong = wrong])
    /\ UNCHANGED <<rollout, recorded, inUse, secrets>>

\* A crash, or a shutdown, which lets go of what takes too long.
Stop(i) ==
    /\ instance[i].pc # "down"
    /\ Becomes(i, Down)
    /\ UNCHANGED <<rollout, recorded, inUse, secrets>>

----------------------------------------------------------------------------
(* CheckKeys *)

Unrecorded(i) == {k \in Keys(i) : \A r \in recorded : r.id # k.id}

\* Mutant of RecordKeys: a key replaces the one on record (DO UPDATE).
RecordKeysOver(i) ==
    /\ instance[i].pc = "record"
    /\ recorded' = {r \in recorded : r.id \notin Ids(i)} \cup Keys(i)
    /\ Goes(i, "compare")
    /\ UNCHANGED <<rollout, inUse, secrets>>

\* RecordStorageKeys, its insert.
RecordKeys(i) ==
    /\ instance[i].pc = "record"
    /\ recorded' = recorded \cup Unrecorded(i)
    /\ Goes(i, "compare")
    /\ UNCHANGED <<rollout, inUse, secrets>>

\* RecordStorageKeys, its select.
CompareKeys(i) ==
    /\ instance[i].pc = "compare"
    /\ IF Keys(i) \subseteq recorded THEN Goes(i, "stored") ELSE Becomes(i, Down)
    /\ UNCHANGED <<rollout, recorded, inUse, secrets>>

\* StoredKeys.
CheckStored(i) ==
    /\ instance[i].pc = "stored"
    /\ IF {k.id : k \in inUse \ {Clear}} \subseteq Ids(i) THEN Goes(i, "list") ELSE Becomes(i, Down)
    /\ UNCHANGED <<rollout, recorded, inUse, secrets>>

----------------------------------------------------------------------------
(* SealStoredCredentials *)

Sealed(s) == secrets[s] \notin {"absent", "plain"}

\* Mutant of ToSeal: of the secrets, those in plaintext.
ToSealPlain(i) == {s \in Secret : secrets[s] = "plain"}

\* S3CredentialsToSeal.
ToSeal(i) == {s \in Secret : secrets[s] # "absent" /\ ~IsCurrent(i, secrets[s])}

\* CountS3CredentialSecrets, without keys; or what there is to seal.
ListSecrets(i) ==
    /\ instance[i].pc = "list"
    /\ IF instance[i].list = <<>>
       THEN IF \E s \in Secret : Sealed(s) THEN Becomes(i, Down) ELSE Goes(i, "serving")
       ELSE Becomes(i, [instance[i] EXCEPT
              !.pc = "seal", !.todo = [s \in ToSeal(i) |-> secrets[s]]])
    /\ UNCHANGED <<rollout, recorded, inUse, secrets>>

\* A secret is stored anew: to those who have listed it, it has changed.
Changed(s) == [j \in Instance |->
    IF s \in DOMAIN instance[j].todo
    THEN [instance[j] EXCEPT !.stale = @ \cup {s}] ELSE instance[j]]

Done(p, s) == [p EXCEPT !.todo = Restrict(@, DOMAIN @ \ {s})]

\* ResealS3Credential, provided the row is as it was listed; a key the list
\* does not hold refuses the start.
SealSecret(i, s) ==
    /\ instance[i].pc = "seal"
    /\ s \in DOMAIN instance[i].todo
    /\ \A t \in DOMAIN instance[i].todo : s <= t
    /\ IF instance[i].todo[s] # "plain" /\ instance[i].todo[s] \notin Ids(i)
       THEN Becomes(i, Down) /\ UNCHANGED secrets
       ELSE IF s \in instance[i].stale
       THEN Becomes(i, Done(instance[i], s)) /\ UNCHANGED secrets
       ELSE /\ secrets' = [secrets EXCEPT ![s] = Head(instance[i].list)]
            /\ instance' = [Changed(s) EXCEPT ![i] = Done(@, s)]
    /\ UNCHANGED <<rollout, recorded, inUse>>

Serve(i) ==
    /\ instance[i].pc = "seal"
    /\ DOMAIN instance[i].todo = {}
    /\ Becomes(i, [instance[i] EXCEPT !.pc = "serving", !.stale = {}])
    /\ UNCHANGED <<rollout, recorded, inUse, secrets>>

----------------------------------------------------------------------------
(* Serving *)

\* appendSealedChunk: a xorb's bytes are sealed, and later it is committed.
WriteXorb(i) ==
    /\ instance[i].pc = "serving"
    /\ ~instance[i].writing
    /\ Becomes(i, [instance[i] EXCEPT !.writing = TRUE])
    /\ UNCHANGED <<rollout, recorded, inUse, secrets>>

CommitXorb(i) ==
    /\ instance[i].writing
    /\ \/ instance[i].list = <<>> /\ inUse' = inUse \cup {Clear}
       \/ \E k \in Keys(i) : IsCurrent(i, k.id) /\ inUse' = inUse \cup {k}
    /\ Becomes(i, [instance[i] EXCEPT !.writing = FALSE])
    /\ UNCHANGED <<rollout, recorded, secrets>>

\* The last xorb under a key is collected.
Collect(k) ==
    /\ k \in inUse
    /\ inUse' = inUse \ {k}
    /\ UNCHANGED <<rollout, instance, recorded, secrets>>

\* StoreCredential: refused without keys; a secret is sealed, and later stored.
Mint(i, s) ==
    /\ instance[i].pc = "serving"
    /\ instance[i].list # <<>>
    /\ instance[i].minting = NoSecret
    /\ secrets[s] = "absent"
    /\ \A j \in Instance : instance[j].minting # s
    /\ Becomes(i, [instance[i] EXCEPT !.minting = s])
    /\ UNCHANGED <<rollout, recorded, inUse, secrets>>

StoreSecret(i) ==
    /\ instance[i].minting # NoSecret
    /\ secrets' = [secrets EXCEPT ![instance[i].minting] = Head(instance[i].list)]
    /\ Becomes(i, [instance[i] EXCEPT !.minting = NoSecret])
    /\ UNCHANGED <<rollout, recorded, inUse>>

Revoke(s) ==
    /\ secrets[s] # "absent"
    /\ secrets' = [secrets EXCEPT ![s] = "absent"]
    /\ instance' = Changed(s)
    /\ UNCHANGED <<rollout, recorded, inUse>>

----------------------------------------------------------------------------
Next ==
    \/ RollOut
    \/ \E i \in Instance :
          \/ \E n \in DOMAIN Lists, wrong \in SUBSET Mistakable : Start(i, n, wrong)
          \/ Stop(i)
          \/ RecordKeys(i)
          \/ CompareKeys(i)
          \/ CheckStored(i)
          \/ ListSecrets(i)
          \/ \E s \in Secret : SealSecret(i, s)
          \/ Serve(i)
          \/ WriteXorb(i)
          \/ CommitXorb(i)
          \/ \E s \in Secret : Mint(i, s)
          \/ StoreSecret(i)
    \/ \E k \in inUse : Collect(k)
    \/ \E s \in Secret : Revoke(s)

Spec == Init /\ [][Next]_vars

----------------------------------------------------------------------------
(* Properties *)

Id == UNION {Range(Lists[n]) : n \in DOMAIN Lists}
AnyKey == {KeyNamed(id, wrong) : id \in Id, wrong \in BOOLEAN}

\* Secrets to seal again, each with what it was listed under.
Listed == UNION {[S -> Id \cup {"plain"}] : S \in SUBSET Secret}

Process ==
    [pc : {"down", "record", "compare", "stored", "list", "seal", "serving"},
     list : Range(Lists) \cup {<<>>}, wrong : SUBSET Id,
     todo : Listed, stale : SUBSET Secret,
     writing : BOOLEAN, minting : Secret \cup {NoSecret}]

\* The types of the state.
TypeOK ==
    /\ rollout \in DOMAIN Lists
    /\ instance \in [Instance -> Process]
    /\ \A i \in Instance : instance[i].wrong \subseteq Ids(i)
    /\ recorded \subseteq AnyKey
    /\ inUse \subseteq AnyKey \cup {Clear}
    /\ secrets \in [Secret -> Id \cup {"absent", "plain"}]

\* A name means one key: whatever instances are given under it by mistake,
\* those that serve hold the key on record, and so is everything sealed, so
\* that content under a key that is only missing is never taken for damage
\* (CheckKeys, keyRecorded).
KeysOnRecord ==
    /\ \A k, l \in recorded : k.id = l.id => k = l
    /\ \A i \in Instance : instance[i].pc = "serving" => Keys(i) \subseteq recorded
    /\ inUse \ {Clear} \subseteq recorded

\* Through the steps of a rotation, whatever order instances start, stop and
\* write in, an instance that serves with keys opens every xorb and every
\* secret that is stored (CheckKeys, SealStoredCredentials; the steps are
\* README.md's, "To rotate").
StoredIsReadable ==
    \A i \in Instance : instance[i].pc = "serving" /\ instance[i].list # <<>> =>
        /\ inUse \ {Clear} \subseteq Keys(i)
        /\ \A s \in Secret : Sealed(s) => secrets[s] \in Ids(i)

----------------------------------------------------------------------------
(* What the proofs rest on (KeysProofs). *)

\* Lists that follow the steps of README.md, "To rotate": those that run at the
\* same time each hold the key that the other seals under.
Rotation ==
    /\ Lists \in Seq(Seq(Id)) /\ Lists # <<>>
    /\ {"absent", "plain"} \cap Id = {}
    /\ NoSecret \notin Secret
    /\ \A m, n \in DOMAIN Lists :
          m \in {n - 1, n, n + 1} /\ Lists[m] # <<>> /\ Lists[n] # <<>>
             => Head(Lists[m]) \in Range(Lists[n])

\* Who runs has the list of a step that is being rolled out, and only who
\* serves writes and mints.
RunsInStep ==
    \A i \in Instance :
        /\ instance[i].pc # "down" =>
              \E n \in {rollout - 1, rollout} \cap DOMAIN Lists : instance[i].list = Lists[n]
        /\ instance[i].pc = "seal" => instance[i].list # <<>>
        /\ instance[i].pc # "seal" => DOMAIN instance[i].todo = {} /\ instance[i].stale = {}
        /\ instance[i].writing => instance[i].pc = "serving"
        /\ instance[i].minting # NoSecret => instance[i].pc = "serving" /\ instance[i].list # <<>>

\* Who is past the comparison holds the keys on record.
ComparedKeys ==
    \A i \in Instance :
        instance[i].pc \in {"stored", "list", "seal", "serving"} => Keys(i) \subseteq recorded

\* Who is past the check of what is stored opens it from then on.
OpensContent ==
    \A i \in Instance :
        instance[i].pc \in {"list", "seal", "serving"} /\ instance[i].list # <<>>
            => inUse \ {Clear} \subseteq Keys(i)

\* Who seals knows what it has listed a secret under, or opens it; who serves
\* opens them all.
Knows(i, s) ==
    IF s \in DOMAIN instance[i].todo \ instance[i].stale THEN secrets[s] = instance[i].todo[s]
    ELSE Sealed(s) => secrets[s] \in Ids(i)

OpensSecrets ==
    \A i \in Instance, s \in Secret :
        instance[i].pc \in {"seal", "serving"} /\ instance[i].list # <<>> => Knows(i, s)

\* A secret that is minted is not there yet, and is minted once.
MintsAreNew ==
    \A i \in Instance : instance[i].minting # NoSecret =>
        /\ secrets[instance[i].minting] = "absent"
        /\ \A j \in Instance : instance[j].minting = instance[i].minting => i = j

IInv ==
    /\ TypeOK
    /\ KeysOnRecord
    /\ RunsInStep
    /\ ComparedKeys
    /\ OpensContent
    /\ OpensSecrets
    /\ MintsAreNew
=============================================================================
