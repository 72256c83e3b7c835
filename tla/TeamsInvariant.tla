---------------------------- MODULE TeamsInvariant -----------------------------
(***************************************************************************)
(* The inductive invariant behind the safety of Teams: what a request that *)
(* holds locks may rely on until it commits; what locks of invitations     *)
(* exclude; and what the audit log says of each subject at any moment.     *)
(***************************************************************************)
EXTENDS Teams

\* What a request knows goes with what it does.
Sane(q) ==
    /\ q.pc \in {"idle", "admitted", "authenticated"} => q.op = None /\ q.rows = {}
    /\ q.pc = "admitted" => q.tenant \in TenantId /\ q.scope = None
    /\ q.pc = "authenticated" => q.tenant \in TenantId \cup {Unowned}
    /\ q.op \in {"createTenant", "deleteTenant", "setRole", "remove", "invite", "revoke",
                 "decline", "accept", "createKey", "deleteKey"} => q.tenant \in TenantId
    /\ q.op \in {"createTenant", "setRole", "remove", "invite", "revoke", "decline", "accept"}
          => q.user \in User
    /\ q.op = "createTenant" => q.name \in Name
    /\ q.op \in {"createNamespace", "deleteNamespace"} =>
          q.name \in Namespace /\ q.tenant \in TenantId \cup {Unowned}
    /\ q.op = "createKey" => q.scope \in Scope /\ q.scope.perms # {}
    /\ q.op = "createKey" /\ q.pc = "recorded" => q.key \in Key
    /\ q.op = "deleteKey" => q.key \in Key /\ q.scope = None
    /\ q.op \in {"setRole", "invite"} => q.role \in Role
    /\ q.op \in {"remove", "revoke", "decline"} => q.role = None
    /\ q.op \in {"revoke", "decline", "accept"} => q.user \in q.rows
    /\ q.op = "invite" /\ q.pc = "recorded" => q.user \in q.rows

\* What it read under its locks is so until it commits.
Grounded(q) ==
    LET t == q.tenant  u == q.user IN
    /\ q.op = "createTenant" /\ q.pc = "recorded" => tenants[t] = None
    /\ q.op \in {"setRole", "remove"} /\ q.pc = "recorded" =>
          members[t][u] # None /\ (members[t][u] = "owner" => OtherOwners(t, u) # {})
    /\ q.op = "accept" =>
          /\ invitations[t][u] # None
          /\ q.role # None => invitations[t][u] = q.role
          /\ q.role # None /\ q.pc = "recorded" => members[t][u] = None
    /\ q.op = "deleteTenant" /\ q.pc = "recorded" =>
          /\ \A i \in User : invitations[t][i] # None => i \in q.rows
          /\ \A n \in Namespace : namespaces[n] # t

\* No two requests hold what excludes each other.
Exclusive ==
    \A r \in Request : \A q \in Others(r) :
        /\ \A t \in TenantId :
              /\ ~(Locks(r, t) /\ Locks(q, t))
              /\ ~(Deletes(r, t) /\ Shares(q, t))
              /\ \A u \in User : ~(HoldsInvitation(r, t, u) /\ HoldsInvitation(q, t, u))
        /\ At(r, "recorded", "createTenant") /\ At(q, "recorded", "createTenant")
              => req[r].tenant # req[q].tenant

\* A team that is locked, or referred to, is there.
HeldTeamsExist ==
    \A r \in Request, t \in TenantId : Locks(r, t) \/ Shares(r, t) => tenants[t] # None

\* The id of a team is drawn before the team is there.
TenantsAreDrawn ==
    /\ \A t \in TenantId : tenants[t] # None => t \in drawn
    /\ \A r \in Request : At(r, "recorded", "createTenant") => req[r].tenant \in drawn

IInv ==
    /\ TypeOK
    /\ \A r \in Request : Sane(req[r])
    /\ \A r \in Request : Grounded(req[r])
    /\ Exclusive
    /\ HeldTeamsExist
    /\ TenantsAreDrawn
    /\ TenantsHaveOwners
    /\ NothingOutlivesItsTeam

\* An invitation that was purged is held, and stays expired, until its purge is
\* over, so of two purges of one team that wait one found nothing.
PurgesHold ==
    \A r \in Request :
        /\ At(r, "purged", "invite") => req[r].rows \subseteq Purgeable(req[r].tenant)
        /\ At(r, "recorded", "invite") =>
              req[r].rows \subseteq Purgeable(req[r].tenant) \cup {req[r].user}

PurgesExclude ==
    \A r \in Request : \A q \in Others(r) :
        At(r, "purged", "invite") /\ At(q, "purged", "invite") /\ req[r].tenant = req[q].tenant
            => req[r].rows = {} \/ req[q].rows = {}

\* Who waits with an invitation locked invites or accepts.
RowsHeld ==
    \A r \in Request : req[r].rows # {} =>
        req[r].op \in {"invite", "accept"} \/ req[r].pc = "recorded"

PurgeInv == PurgesHold /\ PurgesExclude /\ RowsHeld

----------------------------------------------------------------------------
(* The audit log. *)

\* Names and keys change hands one request at a time, and one that is to commit
\* still finds them as it read them.
NamesHeld ==
    /\ \A r \in Request : \A q \in Others(r) : \A n \in Namespace : ~(HoldsName(r, n) /\ HoldsName(q, n))
    /\ \A r \in Request :
          /\ At(r, "recorded", "createNamespace") => namespaces[req[r].name] = None
          /\ At(r, "recorded", "deleteNamespace") => namespaces[req[r].name] # None

KeysHeld ==
    /\ \A k \in Key : keys[k] # None => k \in drawn
    /\ \A r \in Request :
          /\ At(r, "recorded", "createKey") => req[r].key \in drawn /\ keys[req[r].key] = None
          /\ At(r, "recorded", "deleteKey") => keys[req[r].key] = req[r].tenant
    /\ \A r \in Request : \A q \in Others(r) :
          /\ \A k \in Key : ~(HoldsKey(r, k) /\ HoldsKey(q, k))
          /\ At(r, "recorded", "createKey") /\ At(q, "recorded", "createKey") => req[r].key # req[q].key

\* Who accepts an invitation was offered a role.
OffersHeld == \A r \in Request : At(r, "locked", "accept") => req[r].role # None

HeldInv == NamesHeld /\ KeysHeld /\ OffersHeld

\* What a request that is to commit has recorded, and what it says of each.
Subjects(q) ==
    LET t == req[q].tenant  u == req[q].user  n == req[q].name
        Does(ops) == req[q].pc = "recorded" /\ req[q].op \in ops
    IN {s \in Subject :
          \/ Does({"createTenant", "deleteTenant"}) /\ s = <<t, "tenant", None>>
          \/ Does({"createTenant", "setRole", "remove"}) /\ s = <<t, "member", u>>
          \/ Does({"accept"}) /\ req[q].role # None /\ s = <<t, "member", u>>
          \/ Does({"invite", "revoke", "decline", "accept"}) /\ s = <<t, "invitation", u>>
          \/ Does({"createNamespace"}) /\ s = <<t, "namespace", n>>
          \/ Does({"deleteNamespace"}) /\ s = <<namespaces[n], "namespace", n>>
          \/ Does({"createKey", "deleteKey"}) /\ s = <<t, "key", req[q].key>>}

Says(q, s) ==
    CASE req[q].op = "createTenant" -> IF s[2] = "tenant" THEN req[q].name ELSE "owner"
      [] req[q].op \in {"setRole", "invite"} -> req[q].role
      [] req[q].op = "accept" /\ s[2] = "member" -> req[q].role
      [] req[q].op = "createNamespace" -> req[q].tenant
      [] req[q].op = "createKey" -> req[q].key
      [] OTHER -> None

\* A log with nothing to commit, and one with an event that waits to be, where
\* what is committed says v.
Clean(es, v) ==
    \/ es = <<[to |-> v, by |-> None]>>
    \/ es = <<>> /\ v = None

Pending(es, v, event) ==
    \/ es = <<[to |-> v, by |-> None], event>>
    \/ es = <<event>> /\ v = None

\* A log is its newest committed event, and the one event of the one request
\* that is about to change its subject.
Event(q, s) == [to |-> Says(q, s), by |-> q]

LogFits(s) ==
    \/ Clean(audit[s], Replay(s)) /\ \A q \in Request : s \notin Subjects(q)
    \/ \E q \in Request : s \in Subjects(q) /\ Pending(audit[s], Replay(s), Event(q, s))

\* What the tables say of a subject.
Table(s) ==
    CASE s[2] = "tenant" -> tenants[s[1]]
      [] s[2] = "member" -> members[s[1]][s[3]]
      [] s[2] = "invitation" -> invitations[s[1]][s[3]]
      [] s[2] = "namespace" -> IF namespaces[s[3]] = s[1] THEN s[1] ELSE None
      [] s[2] = "key" -> IF keys[s[3]] = s[1] THEN s[3] ELSE None

\* A team's log is compared with its tables from before its id is drawn until
\* it is deleted, or its creation fails.
Live(t) ==
    \/ t \notin drawn
    \/ tenants[t] # None
    \/ \E r \in Request : At(r, "recorded", "createTenant") /\ req[r].tenant = t

Compared(s) ==
    /\ s[2] = "tenant" \/ s[1] = Unowned \/ Live(s[1])
    /\ s[2] = "invitation" => <<s[1], s[3]>> \notin expired

\* Every log has that shape, and says what the tables say wherever it is compared.
LogsFit == DOMAIN audit = Subject /\ \A s \in Subject : LogFits(s)
LogsAgree == \A s \in Subject : Compared(s) => Replay(s) = Table(s)

\* Nothing is in the log of a team whose id was not drawn.
LogsStartEmpty == \A t \in TenantId \ drawn : audit[<<t, "tenant", None>>] = <<>>

AuditInv == PurgeInv /\ HeldInv /\ LogsFit /\ LogsAgree /\ LogsStartEmpty
=============================================================================
