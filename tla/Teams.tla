-------------------------------- MODULE Teams --------------------------------
(***************************************************************************)
(* Teams ("tenants" in the code): their members, invitations, namespaces   *)
(* and S3 keys, and the audit log of what changes them                     *)
(* (internal/db/{tenant,invitation,namespace,credential,audit}.go, and the *)
(* handlers over them in internal/api and internal/s3).                    *)
(*                                                                         *)
(* A handler first reads who its caller is to a team, in no transaction;   *)
(* its change runs later, in a transaction whose statements take row locks *)
(* and whose last statement inserts an event into the audit log.  Here a   *)
(* request is a process: a step is a statement, which waits for the locks  *)
(* it needs, and its last step publishes what it wrote.                    *)
(*                                                                         *)
(* An email address is the user who signs in with it.                      *)
(***************************************************************************)
EXTENDS Naturals, Sequences, FiniteSets, Functions

CONSTANTS
    User,       \* users, each with a verified address
    TenantId,   \* ids of teams, drawn from a sequence
    Name,       \* names of teams
    Namespace,  \* names of namespaces, which are global
    Key,        \* access key ids, drawn at random
    Scopes,     \* scopes that keys are minted with
    Request,    \* requests in flight
    Unowned,    \* the owner of a namespace that no team owns
    All,        \* the namespaces of a key that is not limited to some
    None        \* nothing

Permission == {"read", "list", "write", "delete"}
Role == {"owner", "member"}
Scope == [perms : SUBSET Permission, names : {All} \cup SUBSET Namespace]

\* The changes that requests make.
Op == {"createTenant", "deleteTenant", "setRole", "remove", "invite", "revoke", "decline",
       "accept", "createNamespace", "deleteNamespace", "createKey", "deleteKey"}

ASSUME TeamsAssumption ==
    /\ None \notin User \cup TenantId \cup Name \cup Namespace \cup Key \cup Role \cup {Unowned} \cup Op
    /\ None \notin Request
    /\ Unowned \notin TenantId
    /\ \A s \in Scopes : s \in Scope

VARIABLES
    tenants,     \* the name of each team, or None
    members,     \* the role of each user in each team, or None
    invitations, \* the role each user is invited to in each team, or None
    expired,     \* the invitations that have expired, purged ones too
    namespaces,  \* the owner of each namespace, or None
    keys,        \* the team of each key, or None
    scopes,      \* the scope of each key
    drawn,       \* ids of teams and keys that were drawn
    audit,       \* the events about each subject, by id: what it became, and the
                 \* request whose transaction has not committed it, or None
    req          \* the requests

people == <<members, invitations, expired>>
access == <<keys, scopes>>
vars == <<tenants, people, namespaces, access, drawn, audit, req>>

Idle == [pc |-> "idle", op |-> None, tenant |-> None, user |-> None, role |-> None,
         name |-> None, key |-> None, scope |-> None, rows |-> {}]

\* What events are about, and in whose log.
Subject ==
    (TenantId \X {"tenant"} \X {None})
        \cup (TenantId \X {"member", "invitation"} \X User)
        \cup (TenantId \X {"key"} \X Key)
        \cup ((TenantId \cup {Unowned}) \X {"namespace"} \X Namespace)

\* (What was never recorded reads as if it had been removed.)
Init ==
    /\ tenants = [t \in TenantId |-> None]
    /\ members = [t \in TenantId |-> [u \in User |-> None]]
    /\ invitations = [t \in TenantId |-> [u \in User |-> None]]
    /\ expired = {}
    /\ namespaces = [n \in Namespace |-> None]
    /\ keys = [k \in Key |-> None]
    /\ scopes = [k \in Key |-> None]
    /\ drawn = {}
    /\ audit = [s \in Subject |-> IF s[2] = "tenant" THEN <<>> ELSE <<[to |-> None, by |-> None]>>]
    /\ req = [r \in Request |-> Idle]

Becomes(r, call) == req' = [req EXCEPT ![r] = call]
Goes(r, pc) == Becomes(r, [req[r] EXCEPT !.pc = pc])
At(r, pc, op) == req[r].pc = pc /\ req[r].op = op

----------------------------------------------------------------------------
(* Locks: who holds what, and who waits for whom. *)

\* The team's row, locked against other changes of its members or deleted.
Locks(q, t) ==
    /\ req[q].tenant = t
    /\ \/ req[q].pc \in {"locked", "recorded"} /\ req[q].op \in {"setRole", "remove"}
       \/ req[q].pc \in {"cascade", "recorded"} /\ req[q].op = "deleteTenant"
Deletes(q, t) == Locks(q, t) /\ req[q].op = "deleteTenant"

\* Rows that refer to the team share its row's lock as they are inserted.
Shares(q, t) ==
    /\ req[q].tenant = t /\ req[q].pc = "recorded"
    /\ req[q].op \in {"accept", "invite", "createNamespace", "createKey"}

HoldsInvitation(q, t, u) == req[q].tenant = t /\ u \in req[q].rows
HoldsMember(q, t, u) == Locks(q, t) /\ req[q].user = u
HoldsName(q, n) ==
    req[q].pc = "recorded" /\ req[q].op \in {"createNamespace", "deleteNamespace"} /\ req[q].name = n
HoldsKey(q, k) ==
    \/ At(q, "recorded", "deleteKey") /\ req[q].key = k
    \/ At(q, "recorded", "deleteTenant") /\ keys[k] = req[q].tenant

Purgeable(t) == {u \in User : invitations[t][u] # None /\ <<t, u>> \in expired}

\* A request that is past its first statement waits for q to end.
Waits(r, q) ==
    LET t == req[r].tenant  u == req[r].user
    IN \/ At(r, "purged", "invite") /\ (HoldsInvitation(q, t, u) \/ Deletes(q, t))
       \/ At(r, "locked", "accept") /\ (HoldsMember(q, t, u) \/ Deletes(q, t))
       \/ At(r, "scoped", "createKey") /\ Deletes(q, t)
       \/ At(r, "delete", "deleteTenant") /\ (Locks(q, t) \/ Shares(q, t))
       \/ /\ At(r, "cascade", "deleteTenant")
          /\ \/ \E i \in User : invitations[t][i] # None /\ HoldsInvitation(q, t, i)
             \/ \E k \in Key : keys[k] = t /\ HoldsKey(q, k)
             \/ \E n \in Namespace : namespaces[n] = t /\ HoldsName(q, n)

Others(r) == Request \ {r}
Free(r) == \A q \in Others(r) : ~Waits(r, q)

----------------------------------------------------------------------------
(* The audit log. *)

\* audited's record: the event takes the next id.  Which request took it stays
\* with it until its transaction commits.
Record(r, changes) ==
    audit' = [s \in Subject |->
                 IF s \in DOMAIN changes THEN Append(audit[s], [to |-> changes[s], by |-> r])
                 ELSE audit[s]]

Became(subject, value) == [s \in {subject} |-> value]

Committed(es) == {i \in DOMAIN es : es[i].by = None}
Newest(S) == CHOOSE i \in S : \A j \in S : j <= i

\* The last thing that a log, of one subject, says.
Told(es) == IF Committed(es) = {} THEN None ELSE es[Newest(Committed(es))].to
Replay(s) == Told(audit[s])

\* The events at some places of a log, in their order.
Kept(es, I) ==
    [n \in 1..Cardinality(I) |-> es[CHOOSE i \in I : Cardinality({j \in I : j <= i}) = n]]

\* A commit of r: of what is committed, only the newest event is kept.
Settled(es, r) ==
    LET stamped == [i \in DOMAIN es |-> IF es[i].by = r THEN [es[i] EXCEPT !.by = None] ELSE es[i]]
        superseded == {i \in Committed(stamped) : \E j \in Committed(stamped) : i < j}
    IN Kept(stamped, DOMAIN es \ superseded)

\* A rollback of r: its events are gone.
Dropped(es, r) == Kept(es, {i \in DOMAIN es : es[i].by # r})

Ends(r) ==
    /\ req[r].pc = "recorded"
    /\ audit' = [s \in Subject |-> Settled(audit[s], r)]
    /\ Becomes(r, Idle)

\* A request ends and changes nothing: it is refused, finds nothing to do, is
\* broken off, loses the database, or is ended to break a deadlock.
Abandon(r) ==
    /\ req[r].pc # "idle"
    /\ audit' = [s \in Subject |-> Dropped(audit[s], r)]
    /\ Becomes(r, Idle)
    /\ UNCHANGED <<tenants, people, namespaces, access, drawn>>

----------------------------------------------------------------------------
(* Who asks: a handler reads who its caller is to the team, or what its key    *)
(* may do, and goes on to the change later, whoever the caller is by then.     *)

Reads(r, call) ==
    /\ Becomes(r, call)
    /\ UNCHANGED <<tenants, people, namespaces, access, drawn, audit>>

Calls(r, op) == [req[r] EXCEPT !.op = op]

\* authorizeTenantAccess: the team, and the caller's role in it.  An owner acts
\* on anyone, a member on themselves.
Authorize(r, t, c) ==
    /\ req[r].pc = "idle"
    /\ tenants[t] # None /\ members[t][c] # None
    /\ Reads(r, [Idle EXCEPT !.pc = "admitted", !.tenant = t, !.role = members[t][c],
                             !.user = IF members[t][c] = "owner" THEN None ELSE c])

IsOwner(r) == req[r].pc = "admitted" /\ req[r].role = "owner"
ActsOn(r, u) == req[r].pc = "admitted" /\ req[r].user \in {u, None}

\* authenticate: the admin credential, or a key, and what it may do.  (A key
\* that has expired is one that is not used any more.)
Authenticate(r) ==
    /\ req[r].pc = "idle"
    /\ \/ Reads(r, [Idle EXCEPT !.pc = "authenticated", !.tenant = Unowned,
                                !.scope = [perms |-> Permission, names |-> All]])
       \/ \E k \in Key :
             /\ keys[k] # None
             /\ Reads(r, [Idle EXCEPT !.pc = "authenticated", !.tenant = keys[k],
                                      !.scope = scopes[k]])

\* permit, for the actions that change which namespaces there are: a key that
\* is limited to some of them may not.
Permits(r, perm) ==
    /\ req[r].pc = "authenticated"
    /\ req[r].scope.names = All
    /\ perm \in req[r].scope.perms

\* The namespace that a deletion names is resolved first: among those of the
\* caller's teams (authorizeNamespace), of the key's team, or, for the admin
\* credential, among all (authorize).
ResolveForMember(r, n) ==
    /\ req[r].pc = "idle"
    /\ \E t \in TenantId, c \in User :
          /\ namespaces[n] = t /\ members[t][c] # None
          /\ Reads(r, [Idle EXCEPT !.pc = "resolved", !.op = "deleteNamespace", !.tenant = t, !.name = n])

ResolveForKey(r, n) ==
    /\ Permits(r, "delete")
    /\ namespaces[n] # None
    /\ req[r].tenant \in {namespaces[n], Unowned}
    /\ Reads(r, [Idle EXCEPT !.pc = "resolved", !.op = "deleteNamespace",
                             !.tenant = req[r].tenant, !.name = n])

----------------------------------------------------------------------------
(* Teams. *)

\* CreateTenant: the team and its owner, in one transaction.  It waits for
\* another that inserts the name; a name in use is refused.
CreateTenant(r, t, n, u) ==
    /\ req[r].pc = "idle"
    /\ t \notin drawn
    /\ \A o \in TenantId : tenants[o] # n
    /\ \A q \in Request : ~(At(q, "recorded", "createTenant") /\ req[q].name = n)
    /\ drawn' = drawn \cup {t}
    /\ Becomes(r, [Idle EXCEPT !.pc = "recorded", !.op = "createTenant", !.tenant = t,
                            !.name = n, !.user = u])
    /\ Record(r, [s \in {<<t, "tenant", None>>, <<t, "member", u>>} |->
                     IF s[2] = "tenant" THEN n ELSE "owner"])
    /\ UNCHANGED <<tenants, people, namespaces, access>>

CommitTenant(r) ==
    /\ req[r].op = "createTenant"
    /\ Ends(r)
    /\ tenants' = [tenants EXCEPT ![req[r].tenant] = req[r].name]
    /\ members' = [members EXCEPT ![req[r].tenant][req[r].user] = "owner"]
    /\ UNCHANGED <<invitations, expired, namespaces, access, drawn>>

\* DeleteTenant: first a look at whether it owns namespaces ...
CheckEmpty(r) ==
    /\ IsOwner(r)
    /\ \A n \in Namespace : namespaces[n] # req[r].tenant
    /\ Reads(r, [Calls(r, "deleteTenant") EXCEPT !.pc = "delete", !.role = None])

\* ... then the row is deleted ...
DeleteRow(r) ==
    /\ At(r, "delete", "deleteTenant") /\ Free(r)
    /\ tenants[req[r].tenant] # None
    /\ Goes(r, "cascade")
    /\ UNCHANGED <<tenants, people, namespaces, access, drawn, audit>>

\* Mutant of Cascade: a namespace created since goes unnoticed.
CascadeOverNamespaces(r) ==
    LET t == req[r].tenant
    IN /\ At(r, "cascade", "deleteTenant") /\ Free(r)
       /\ Becomes(r, [req[r] EXCEPT !.pc = "recorded",
                                    !.rows = {u \in User : invitations[t][u] # None}])
       /\ Record(r, Became(<<t, "tenant", None>>, None))
       /\ UNCHANGED <<tenants, people, namespaces, access, drawn>>

\* Mutant of Cascade: the rows that go with the team are not locked.
CascadeUnlocked(r) ==
    LET t == req[r].tenant
    IN /\ At(r, "cascade", "deleteTenant")
       /\ \A n \in Namespace : namespaces[n] # t
       /\ Goes(r, "recorded")
       /\ Record(r, Became(<<t, "tenant", None>>, None))
       /\ UNCHANGED <<tenants, people, namespaces, access, drawn>>

\* ... and what refers to it goes with it, or, a namespace, keeps it.
Cascade(r) ==
    LET t == req[r].tenant
    IN /\ At(r, "cascade", "deleteTenant") /\ Free(r)
       /\ \A n \in Namespace : namespaces[n] # t
       /\ Becomes(r, [req[r] EXCEPT !.pc = "recorded",
                                    !.rows = {u \in User : invitations[t][u] # None}])
       /\ Record(r, Became(<<t, "tenant", None>>, None))
       /\ UNCHANGED <<tenants, people, namespaces, access, drawn>>

CommitDeletion(r) ==
    LET t == req[r].tenant
        gone == {k \in Key : keys[k] = t}
    IN /\ req[r].op = "deleteTenant"
       /\ Ends(r)
       /\ tenants' = [tenants EXCEPT ![t] = None]
       /\ members' = [members EXCEPT ![t] = [u \in User |-> None]]
       /\ invitations' = [invitations EXCEPT ![t] = [u \in User |-> None]]
       /\ expired' = expired \ ({t} \X User)
       /\ keys' = [k \in Key |-> IF k \in gone THEN None ELSE keys[k]]
       /\ scopes' = [k \in Key |-> IF k \in gone THEN None ELSE scopes[k]]
       /\ UNCHANGED <<namespaces, drawn>>

----------------------------------------------------------------------------
(* Members. *)

\* Mutant of LockTenant: others may be changing the team's members too.
LockTenantShared(r, op, u, role) ==
    /\ IF op = "remove" THEN ActsOn(r, u) /\ role = None ELSE IsOwner(r) /\ role # None
    /\ \A q \in Others(r) : ~Deletes(q, req[r].tenant)
    /\ tenants[req[r].tenant] # None
    /\ Reads(r, [Calls(r, op) EXCEPT !.pc = "locked", !.user = u, !.role = role])

\* lockTenant, for an owner to change the role of, or remove, anyone; or for a
\* member to leave.
LockTenant(r, op, u, role) ==
    /\ IF op = "remove" THEN ActsOn(r, u) /\ role = None ELSE IsOwner(r) /\ role # None
    /\ \A q \in Others(r) : ~Locks(q, req[r].tenant)
    /\ tenants[req[r].tenant] # None
    /\ Reads(r, [Calls(r, op) EXCEPT !.pc = "locked", !.user = u, !.role = role])

OtherOwners(t, u) == {o \in User \ {u} : members[t][o] = "owner"}

\* SetMemberRole, with the team locked.
SetMemberRole(r) ==
    LET t == req[r].tenant  u == req[r].user
    IN /\ At(r, "locked", "setRole")
       /\ members[t][u] \notin {None, req[r].role}
       /\ members[t][u] = "owner" => OtherOwners(t, u) # {}
       /\ Goes(r, "recorded")
       /\ Record(r, Became(<<t, "member", u>>, req[r].role))
       /\ UNCHANGED <<tenants, people, namespaces, access, drawn>>

\* RemoveMember, with the team locked.
RemoveMember(r) ==
    LET t == req[r].tenant  u == req[r].user
    IN /\ At(r, "locked", "remove")
       /\ members[t][u] # None
       /\ members[t][u] = "owner" => OtherOwners(t, u) # {}
       /\ Goes(r, "recorded")
       /\ Record(r, Became(<<t, "member", u>>, None))
       /\ UNCHANGED <<tenants, people, namespaces, access, drawn>>

\* The role of one who is removed is None.
CommitMember(r) ==
    /\ req[r].op \in {"setRole", "remove"}
    /\ Ends(r)
    /\ members' = [members EXCEPT ![req[r].tenant][req[r].user] = req[r].role]
    /\ UNCHANGED <<tenants, invitations, expired, namespaces, access, drawn>>

----------------------------------------------------------------------------
(* Invitations. *)

\* Mutant of PurgeInvitations: it skips those that others hold.
PurgeInvitationsSkipping(r, u, role) ==
    LET t == req[r].tenant
    IN /\ IsOwner(r)
       /\ Reads(r, [Calls(r, "invite") EXCEPT !.pc = "purged", !.user = u, !.role = role,
                       !.rows = {i \in Purgeable(t) : \A q \in Request : ~HoldsInvitation(q, t, i)}])

\* Invite: the team's expired invitations are deleted ...
PurgeInvitations(r, u, role) ==
    LET t == req[r].tenant
    IN /\ IsOwner(r)
       /\ \A q \in Others(r), i \in Purgeable(t) : ~HoldsInvitation(q, t, i)
       /\ Reads(r, [Calls(r, "invite") EXCEPT !.pc = "purged", !.user = u, !.role = role,
                                               !.rows = Purgeable(t)])

\* ... and the invitation is inserted, or replaces the one there is.
UpsertInvitation(r) ==
    /\ At(r, "purged", "invite") /\ Free(r)
    /\ tenants[req[r].tenant] # None
    /\ Becomes(r, [req[r] EXCEPT !.pc = "recorded", !.rows = @ \cup {req[r].user}])
    /\ Record(r, Became(<<req[r].tenant, "invitation", req[r].user>>, req[r].role))
    /\ UNCHANGED <<tenants, people, namespaces, access, drawn>>

CommitInvitation(r) ==
    LET t == req[r].tenant
    IN /\ req[r].op = "invite"
       /\ Ends(r)
       /\ invitations' = [invitations EXCEPT ![t] =
                             [u \in User |-> IF u = req[r].user THEN req[r].role
                                             ELSE IF u \in req[r].rows THEN None
                                             ELSE invitations[t][u]]]
       /\ expired' = expired \ {<<t, req[r].user>>}
       /\ UNCHANGED <<tenants, members, namespaces, access, drawn>>

\* RevokeInvitation, expired or not.
RevokeInvitation(r, u) ==
    LET t == req[r].tenant
    IN /\ IsOwner(r)
       /\ invitations[t][u] # None
       /\ \A q \in Others(r) : ~HoldsInvitation(q, t, u)
       /\ Becomes(r, [Calls(r, "revoke") EXCEPT !.pc = "recorded", !.user = u, !.role = None,
                                                !.rows = {u}])
       /\ Record(r, Became(<<t, "invitation", u>>, None))
       /\ UNCHANGED <<tenants, people, namespaces, access, drawn>>

\* A live invitation of the user to a team of that name, that nobody holds.
Invited(t, u) ==
    /\ tenants[t] # None
    /\ invitations[t][u] # None /\ <<t, u>> \notin expired
    /\ \A q \in Request : ~HoldsInvitation(q, t, u)

DeclineInvitation(r, t, u) ==
    /\ req[r].pc = "idle"
    /\ Invited(t, u)
    /\ Becomes(r, [Idle EXCEPT !.pc = "recorded", !.op = "decline", !.tenant = t, !.user = u,
                            !.rows = {u}])
    /\ Record(r, Became(<<t, "invitation", u>>, None))
    /\ UNCHANGED <<tenants, people, namespaces, access, drawn>>

\* Mutant of AcceptInvitation: the invitation is read and not locked.
AcceptInvitationUnlocked(r, t, u) ==
    /\ req[r].pc = "idle"
    /\ Invited(t, u)
    /\ Reads(r, [Idle EXCEPT !.pc = "locked", !.op = "accept", !.tenant = t, !.user = u,
                             !.role = invitations[t][u]])

\* AcceptInvitation: the invitation is locked ...
AcceptInvitation(r, t, u) ==
    /\ req[r].pc = "idle"
    /\ Invited(t, u)
    /\ Reads(r, [Idle EXCEPT !.pc = "locked", !.op = "accept", !.tenant = t, !.user = u,
                             !.role = invitations[t][u], !.rows = {u}])

\* Mutant of Join: the event does not tell who was a member already.
JoinAlways(r) ==
    LET t == req[r].tenant  u == req[r].user
    IN /\ At(r, "locked", "accept") /\ Free(r)
       /\ tenants[t] # None
       /\ Becomes(r, [req[r] EXCEPT !.pc = "recorded",
                                    !.role = IF members[t][u] = None THEN @ ELSE None])
       /\ Record(r, [s \in {<<t, "invitation", u>>, <<t, "member", u>>} |->
                        IF s[2] = "invitation" THEN None ELSE req[r].role])
       /\ UNCHANGED <<tenants, people, namespaces, access, drawn>>

\* ... then the user joins, with its role, unless they are a member already;
\* and it is deleted.
Join(r) ==
    LET t == req[r].tenant  u == req[r].user
        joins == members[t][u] = None
    IN /\ At(r, "locked", "accept") /\ Free(r)
       /\ tenants[t] # None
       /\ Becomes(r, [req[r] EXCEPT !.pc = "recorded", !.role = IF joins THEN @ ELSE None])
       /\ Record(r, [s \in {<<t, "invitation", u>>} \cup (IF joins THEN {<<t, "member", u>>} ELSE {}) |->
                        IF s[2] = "invitation" THEN None ELSE req[r].role])
       /\ UNCHANGED <<tenants, people, namespaces, access, drawn>>

CommitAnswer(r) ==
    LET t == req[r].tenant  u == req[r].user
    IN /\ req[r].op \in {"revoke", "decline", "accept"}
       /\ Ends(r)
       /\ invitations' = [invitations EXCEPT ![t][u] = None]
       /\ members' = IF req[r].role = None THEN members ELSE [members EXCEPT ![t][u] = req[r].role]
       /\ expired' = expired \ {<<t, u>>}
       /\ UNCHANGED <<tenants, namespaces, access, drawn>>

----------------------------------------------------------------------------
(* Namespaces and keys. *)

\* CreateNamespace, by a member or with a key: the name is free, and the team
\* is there.  What the admin credential creates stays unowned.
InsertNamespace(r, n) ==
    LET t == req[r].tenant
    IN /\ req[r].pc = "admitted" \/ Permits(r, "write")
       /\ \A q \in Others(r) : ~HoldsName(q, n) /\ ~Deletes(q, t)
       /\ namespaces[n] = None
       /\ t # Unowned => tenants[t] # None
       /\ Becomes(r, [Idle EXCEPT !.pc = "recorded", !.op = "createNamespace", !.tenant = t, !.name = n])
       /\ Record(r, Became(<<t, "namespace", n>>, t))
       /\ UNCHANGED <<tenants, people, namespaces, access, drawn>>

\* DeleteNamespace: the row of that name, whoever owns it now.  (Whether it is
\* empty, and stays so, is Quota's and Multipart's.)
DeleteNamespace(r) ==
    LET n == req[r].name
    IN /\ At(r, "resolved", "deleteNamespace")
       /\ \A q \in Others(r) : ~HoldsName(q, n)
       /\ namespaces[n] # None
       /\ Goes(r, "recorded")
       /\ Record(r, Became(<<namespaces[n], "namespace", n>>, None))
       /\ UNCHANGED <<tenants, people, namespaces, access, drawn>>

CommitNamespace(r) ==
    /\ req[r].op \in {"createNamespace", "deleteNamespace"}
    /\ Ends(r)
    /\ namespaces' = [namespaces EXCEPT ![req[r].name] =
                         IF req[r].op = "createNamespace" THEN req[r].tenant ELSE None]
    /\ UNCHANGED <<tenants, people, access, drawn>>

\* Mutant of NormalizeScope: an empty list of permissions is let through.
NormalizeScopeEmpty(r, scope) ==
    /\ IsOwner(r)
    /\ scope.names # {}
    /\ scope.names # All => \A n \in scope.names : namespaces[n] = req[r].tenant
    /\ Reads(r, [Calls(r, "createKey") EXCEPT !.pc = "scoped", !.role = None, !.scope = scope])

\* normalizeScope: it grants something, on something, and the team owns the
\* namespaces it names, now.
NormalizeScope(r, scope) ==
    /\ IsOwner(r)
    /\ scope.perms # {}
    /\ scope.names # {}
    /\ scope.names # All => \A n \in scope.names : namespaces[n] = req[r].tenant
    /\ Reads(r, [Calls(r, "createKey") EXCEPT !.pc = "scoped", !.role = None, !.scope = scope])

\* CreateS3Credential.
InsertKey(r, k) ==
    /\ At(r, "scoped", "createKey") /\ Free(r)
    /\ tenants[req[r].tenant] # None
    /\ k \notin drawn
    /\ drawn' = drawn \cup {k}
    /\ Becomes(r, [req[r] EXCEPT !.pc = "recorded", !.key = k])
    /\ Record(r, Became(<<req[r].tenant, "key", k>>, k))
    /\ UNCHANGED <<tenants, people, namespaces, access>>

\* DeleteS3Credential: a key of that team.
DeleteKey(r, k) ==
    /\ IsOwner(r)
    /\ \A q \in Others(r) : ~HoldsKey(q, k)
    /\ keys[k] = req[r].tenant
    /\ Becomes(r, [Calls(r, "deleteKey") EXCEPT !.pc = "recorded", !.role = None, !.key = k])
    /\ Record(r, Became(<<req[r].tenant, "key", k>>, None))
    /\ UNCHANGED <<tenants, people, namespaces, access, drawn>>

CommitKey(r) ==
    LET k == req[r].key
    IN /\ req[r].op \in {"createKey", "deleteKey"}
       /\ Ends(r)
       /\ keys' = [keys EXCEPT ![k] = IF req[r].op = "createKey" THEN req[r].tenant ELSE None]
       /\ scopes' = [scopes EXCEPT ![k] = req[r].scope]
       /\ UNCHANGED <<tenants, people, namespaces, drawn>>

\* Time passes the expiry of an invitation.
Expire(t, u) ==
    /\ invitations[t][u] # None
    /\ expired' = expired \cup {<<t, u>>}
    /\ UNCHANGED <<tenants, members, invitations, namespaces, access, drawn, audit, req>>

Asking(r) ==
    \/ \E t \in TenantId, c \in User : Authorize(r, t, c)
    \/ Authenticate(r)
    \/ \E n \in Namespace : ResolveForMember(r, n) \/ ResolveForKey(r, n)

Working(r) ==
    \/ \E t \in TenantId, u \in User :
          \/ AcceptInvitation(r, t, u) \/ DeclineInvitation(r, t, u)
          \/ \E n \in Name : CreateTenant(r, t, n, u)
    \/ \E u \in User :
          \/ \E role \in Role : LockTenant(r, "setRole", u, role) \/ PurgeInvitations(r, u, role)
          \/ LockTenant(r, "remove", u, None)
          \/ RevokeInvitation(r, u)
    \/ SetMemberRole(r) \/ RemoveMember(r)
    \/ UpsertInvitation(r) \/ Join(r)
    \/ CheckEmpty(r) \/ DeleteRow(r) \/ Cascade(r)
    \/ \E n \in Namespace : InsertNamespace(r, n)
    \/ DeleteNamespace(r)
    \/ \E scope \in Scopes : NormalizeScope(r, scope)
    \/ \E k \in Key : InsertKey(r, k) \/ DeleteKey(r, k)

Committing(r) ==
    \/ CommitTenant(r) \/ CommitDeletion(r) \/ CommitMember(r) \/ CommitInvitation(r)
    \/ CommitAnswer(r) \/ CommitNamespace(r) \/ CommitKey(r)

Next ==
    \/ \E r \in Request : Asking(r) \/ Working(r) \/ Committing(r) \/ Abandon(r)
    \/ \E t \in TenantId, u \in User : Expire(t, u)

Spec == Init /\ [][Next]_vars

----------------------------------------------------------------------------
(* Properties. *)

Call ==
    [pc : {"idle", "admitted", "authenticated", "resolved", "locked", "purged", "delete", "cascade", "scoped", "recorded"},
     op : Op \cup {None},
     tenant : TenantId \cup {Unowned, None}, user : User \cup {None}, role : Role \cup {None},
     name : Name \cup Namespace \cup {None}, key : Key \cup {None}, scope : {None} \cup Scope,
     rows : SUBSET User]

\* Types of the tables and of the requests; every key may do something.
TypeOK ==
    /\ tenants \in [TenantId -> Name \cup {None}]
    /\ members \in [TenantId -> [User -> Role \cup {None}]]
    /\ invitations \in [TenantId -> [User -> Role \cup {None}]]
    /\ expired \subseteq TenantId \X User
    /\ namespaces \in [Namespace -> TenantId \cup {Unowned, None}]
    /\ keys \in [Key -> TenantId \cup {None}]
    /\ scopes \in [Key -> {None} \cup {s \in Scope : s.perms # {}}]
    /\ drawn \subseteq TenantId \cup Key
    /\ req \in [Request -> Call]

\* A team has an owner for as long as it exists: owners who demote and remove
\* each other, or leave, at the same time never leave it unmanageable
\* (tenant.go:123-129).
TenantsHaveOwners ==
    \A t \in TenantId : tenants[t] # None => \E u \in User : members[t][u] = "owner"

\* What belongs to a team is there only as long as the team is: its deletion
\* races the creation of a namespace, an invitation, a member or a key.
NothingOutlivesItsTeam ==
    \A t \in TenantId : tenants[t] = None =>
        /\ \A u \in User : members[t][u] = None /\ invitations[t][u] = None
        /\ \A n \in Namespace : namespaces[n] # t
        /\ \A k \in Key : keys[k] # t

\* "An event exists exactly when its change committed, and a no-op records
\* nothing" (audit.go:15-20): replaying a team's events, in the order of their
\* ids, gives its members, live invitations, namespaces and keys, whatever the
\* order in which the transactions that recorded them committed.
AuditReplays ==
    /\ \A n \in Namespace, t \in TenantId \cup {Unowned} :
          (t = Unowned \/ tenants[t] # None) =>
             Replay(<<t, "namespace", n>>) = IF namespaces[n] = t THEN t ELSE None
    /\ \A t \in TenantId :
          /\ Replay(<<t, "tenant", None>>) = tenants[t]
          /\ tenants[t] # None =>
                /\ \A u \in User :
                      /\ Replay(<<t, "member", u>>) = members[t][u]
                      /\ <<t, u>> \notin expired =>
                            Replay(<<t, "invitation", u>>) = invitations[t][u]
                /\ \A k \in Key : Replay(<<t, "key", k>>) = IF keys[k] = t THEN k ELSE None

\* Requests wait for each other in a circle only where a team is deleted while
\* someone is invited to it or accepts (both lock an invitation before they
\* refer to the team; the deletion locks them the other way round).
DeadlocksExpected ==
    \A S \in SUBSET Request :
        S # {} /\ (\A r \in S : \E q \in S \ {r} : Waits(r, q)) =>
            \E r, q \in S : req[r].op = "deleteTenant" /\ req[q].op \in {"accept", "invite"}

\* Nothing is recorded in a team's log after its deletion was.
DeletionIsRecordedLast ==
    [][\A t \in TenantId, s \in Subject :
          s[1] = t /\ Len(audit'[s]) > Len(audit[s]) =>
             \A i \in DOMAIN audit[<<t, "tenant", None>>] :
                audit[<<t, "tenant", None>>][i].to # None]_vars

\* A user becomes a member by creating the team, or through an invitation that
\* stands until then, is consumed, and offered that role: not one that was
\* revoked, replaced or used meanwhile (membership.go:14-19).
MembersJoinByInvitation ==
    [][\A t \in TenantId, u \in User :
          members[t][u] = None /\ members'[t][u] # None =>
             \/ tenants[t] = None
             \/ invitations[t][u] = members'[t][u] /\ invitations'[t][u] = None]_vars
=============================================================================
