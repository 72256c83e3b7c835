----------------------------- MODULE MCRequests ------------------------------
(***************************************************************************)
(* What requests do, on small instances: Teams, and the other machines     *)
(* that share no state with it nor with each other.  One of them runs in   *)
(* each behaviour, the others stay as they began.                          *)
(***************************************************************************)
EXTENDS TeamsInvariant, TLC

CONSTANTS u1, u2, t1, t2, r1, r2, b1,
    Parts       \* the machines to run

VARIABLES
    running,    \* the machine that runs
    stored, query, scan, listed, stayed, seen, changes,     \* Listing
    sent, wire, ending, reader, out, result,                \* Framing
    rollout, instance, recorded, inUse, secrets,                            \* Keys
    users, sessions, cookie, flow, tabs, request, revoked                   \* Sessions

----------------------------------------------------------------------------
(* Teams: asked of a key are everything in the team, one namespace only, and *)
(* nothing.                                                                  *)

FullScope == [perms |-> Permission, names |-> All]
LimitedScope == [perms |-> Permission, names |-> {b1}]
EmptyScope == [perms |-> {}, names |-> All]
MCScopes == {FullScope, LimitedScope, EmptyScope}

Interchangeable == Permutations(User) \cup Permutations(TenantId) \cup Permutations(Request)

----------------------------------------------------------------------------
(* Listing: bytes 1 to 3, of which 2 is a delimiter and 3 its successor. *)

L == INSTANCE Listing WITH
        Key <- {<<1>>, <<1, 2, 1>>, <<1, 2, 3>>, <<1, 3>>, <<3>>},
        Prefix <- {<<>>, <<1>>},
        Delimiter <- {0, 2},
        After <- {<<>>, <<1, 2, 1>>},
        MaxKeys <- {1, 2},
        Batch <- 2,
        Changes <- 1

----------------------------------------------------------------------------
(* Framing: bytes 1 and 2, and sizes in binary, of one digit or two. *)

F == INSTANCE Framing WITH
        Content <- {<<>>, <<1>>, <<1, 1>>, <<1, 2, 1>>},
        ChunkSize <- {1, 2},
        Base <- 2

----------------------------------------------------------------------------
(* Keys: no keys, a first one, and its replacement in the steps of a rotation. *)
(* An instance may be given another key under the second name.                 *)

K == INSTANCE Keys WITH
        Instance <- {"i1", "i2"},
        Lists <- << <<>>, <<"k1">>, <<"k1", "k2">>, <<"k2", "k1">>, <<"k2">> >>,
        Mistakable <- {"k2"},
        Secret <- {1}

----------------------------------------------------------------------------
(* Sessions: two browsers of one person. *)

N == INSTANCE Sessions WITH
        Browser <- User, Identity <- {"i"},
        UserIds <- {1, 2}, Token <- {1, 2}, Flow <- {1, 2},
        ended <- revoked

----------------------------------------------------------------------------
listingVars == <<stored, query, scan, listed, stayed, seen, changes>>
framingVars == <<sent, wire, ending, reader, out, result>>
keysVars == <<rollout, instance, recorded, inUse, secrets>>
sessionVars == <<users, sessions, cookie, flow, tabs, request, revoked>>
all == <<vars, listingVars, framingVars, keysVars, sessionVars, running>>

\* A machine that does not run has no state.
Off == 0
NoListing ==
    /\ stored = Off /\ query = Off /\ scan = Off /\ listed = Off /\ stayed = Off
    /\ seen = Off /\ changes = Off
NoFraming ==
    /\ sent = Off /\ wire = Off /\ ending = Off /\ reader = Off /\ out = Off
    /\ result = Off
NoKeys ==
    /\ rollout = Off /\ instance = Off /\ recorded = Off /\ inUse = Off
    /\ secrets = Off
NoSession ==
    /\ users = Off /\ sessions = Off /\ cookie = Off /\ flow = Off /\ tabs = Off
    /\ request = Off /\ revoked = Off

MCInit ==
    /\ running \in Parts
    /\ Init
    /\ IF running = "listing" THEN L!Init ELSE NoListing
    /\ IF running = "framing" THEN F!Init ELSE NoFraming
    /\ IF running = "keys" THEN K!Init ELSE NoKeys
    /\ IF running = "signing" THEN N!Init ELSE NoSession

\* In Teams, invitations expire while the team has no keys and no namespaces.
InScope ==
    expired # {} =>
        /\ \A k \in Key : keys[k] = None
        /\ \A n \in Namespace : namespaces[n] = None

\* In Sessions, a request is idle while two tabs are at the provider.
SignsInScope == Cardinality(tabs) > 1 => \E r \in Request : request[r] = N!Idle

MCNext ==
    \/ running = "teams" /\ Next /\ InScope'
        /\ UNCHANGED <<listingVars, framingVars, keysVars, sessionVars, running>>
    \/ running = "listing" /\ L!Next
        /\ UNCHANGED <<vars, framingVars, keysVars, sessionVars, running>>
    \/ running = "framing" /\ F!Next
        /\ UNCHANGED <<vars, listingVars, keysVars, sessionVars, running>>
    \/ running = "keys" /\ K!Next
        /\ UNCHANGED <<vars, listingVars, framingVars, sessionVars, running>>
    \/ running = "signing" /\ N!Next /\ SignsInScope'
        /\ UNCHANGED <<vars, listingVars, framingVars, keysVars, running>>

MCSpec == MCInit /\ [][MCNext]_all

----------------------------------------------------------------------------
(* Properties: those of the machines. *)

\* The types of each machine's state, and what goes with them.
PartsTypeOK ==
    /\ running = "teams" => IInv
    /\ running = "listing" => L!ListingAssumption /\ L!IInv
    /\ running = "framing" => F!TypeOK
    /\ running = "keys" => K!Rotation /\ K!IInv
    /\ running = "signing" => N!NoneIsNobody /\ N!IInv

ListsWhatStays == running = "listing" => L!ListsWhatStays
ListsEveryKey == running = "listing" => L!ListsEveryKey
BodiesMeetTheirClaims == running = "framing" => F!BodiesMeetTheirClaims
BodiesAreWhole == running = "framing" => F!BodiesAreWhole
KeysOnRecord == running = "keys" => K!KeysOnRecord
StoredIsReadable == running = "keys" => K!StoredIsReadable
EndedStaysEnded == running = "signing" => N!EndedStaysEnded
=============================================================================
