----------------------------- MODULE TeamsProofs ------------------------------
(***************************************************************************)
(* Proofs of Teams, for any number of users, teams and requests: a team    *)
(* keeps an owner and what belongs to it goes with it, a user joins by the *)
(* invitation that stands, only deletions of a team deadlock, and what the *)
(* audit log says of a team is what its tables say, in whatever order the  *)
(* transactions that write it commit.                                      *)
(*                                                                         *)
(* A step of a request either changes no table, and then the request knows *)
(* what its new place in the handler needs (Acts); or it commits, and then *)
(* its locks keep what the others know. The log of a subject holds at most *)
(* two events: the newest that is committed, and that of the one request   *)
(* that is about to change it.                                             *)
(***************************************************************************)
EXTENDS TeamsInvariant, FiniteSetTheorems, TLAPS

----------------------------------------------------------------------------
(* Steps that change no table. *)

\* A request that is over has its type.
LEMMA IdleTyped == Idle \in Call
  BY TeamsAssumption DEF Idle, Call

LEMMA AuthenticatedTyped ==
    ASSUME NEW whose \in TenantId \cup {Unowned}, NEW what \in {None} \cup Scope
    PROVE [Idle EXCEPT !.pc = "authenticated", !.tenant = whose, !.scope = what] \in Call
  BY IdleTyped DEF Call, Op

LEMMA AdmittedTyped ==
    ASSUME NEW t \in TenantId, NEW role \in Role \cup {None}, NEW who \in User \cup {None}
    PROVE [Idle EXCEPT !.pc = "admitted", !.tenant = t, !.role = role, !.user = who] \in Call
  BY IdleTyped DEF Call, Op

LEMMA AcceptTyped ==
    ASSUME NEW t \in TenantId, NEW u \in User, NEW role \in Role \cup {None}
    PROVE [Idle EXCEPT !.pc = "locked", !.op = "accept", !.tenant = t, !.user = u, !.role = role,
                       !.rows = {u}] \in Call
  BY IdleTyped DEF Call, Op

LEMMA DeclineTyped ==
    ASSUME NEW t \in TenantId, NEW u \in User
    PROVE [Idle EXCEPT !.pc = "recorded", !.op = "decline", !.tenant = t, !.user = u,
                       !.rows = {u}] \in Call
  BY IdleTyped DEF Call, Op

\* A request is updated, and the others are not.
LEMMA CallUpdated ==
    ASSUME TypeOK, NEW r \in Request, NEW c \in Call, Becomes(r, c)
    PROVE req' \in [Request -> Call] /\ req'[r] = c /\ \A q \in Others(r) : req'[q] = req[q]
  BY DEF TypeOK, Becomes, Others

Untouched == UNCHANGED <<tenants, people, namespaces, access>>

\* A request takes a place, c, in which it knows what it needs, and where nobody
\* holds what its new locks exclude.
Knows(c) == Sane(c) /\ Grounded(c)

Acts(r) ==
    /\ Untouched
    /\ drawn \subseteq drawn' /\ drawn' \subseteq drawn \cup TenantId \cup Key
    /\ req' \in [Request -> Call]
    /\ \A q \in Others(r) : req'[q] = req[q]
    /\ Knows(req'[r])
    /\ \A t \in TenantId :
          /\ Locks(r, t)' => Locks(r, t) \/ (tenants[t] # None /\ \A q \in Others(r) : ~Locks(q, t))
          /\ Deletes(r, t)' => Deletes(r, t) \/ \A q \in Others(r) : ~Shares(q, t)
          /\ Shares(r, t)' =>
                Shares(r, t) \/ (tenants[t] # None /\ \A q \in Others(r) : ~Deletes(q, t))
          /\ \A u \in User : HoldsInvitation(r, t, u)' =>
                HoldsInvitation(r, t, u) \/ \A q \in Others(r) : ~HoldsInvitation(q, t, u)
    /\ req'[r].op = "createTenant" /\ req'[r].pc = "recorded" => req'[r].tenant \in drawn' \ drawn

Acting(r) == Asking(r) \/ Working(r) \/ Abandon(r)

\* Who asks is read.
LEMMA AskingActs ==
    ASSUME TypeOK, TenantsAreDrawn, NEW r \in Request, Sane(req[r]), Grounded(req[r]), Asking(r)
    PROVE Acts(r)
  <1>1. ASSUME NEW t \in TenantId, NEW u \in User, Authorize(r, t, u)
        PROVE Acts(r)
    <2> DEFINE who == IF members[t][u] = "owner" THEN None ELSE u
    <2> DEFINE c == [Idle EXCEPT !.pc = "admitted", !.tenant = t, !.role = members[t][u],
                                  !.user = who]
    <2>1. req[r] \in Call /\ Idle \in Call /\ members[t][u] \in Role \cup {None} /\ who \in User \cup {None}
      BY <1>1, IdleTyped DEF TypeOK
    <2> HIDE DEF who
    <2>2. c \in Call
      BY <2>1, AdmittedTyped DEF Op
    <2>3. /\ c.pc = "admitted"
          /\ c.op = None
          /\ c.tenant = t
          /\ c.scope = None
          /\ c.rows = {}
      BY DEF Idle
    <2> USE DEF who
    <2>4. /\ Becomes(r, c) /\ Untouched
          /\ drawn \subseteq drawn' /\ drawn' \subseteq drawn \cup TenantId \cup Key
      BY <1>1 DEF Authorize, Untouched, TypeOK, Reads
    <2> HIDE DEF c
    <2>5. req' \in [Request -> Call] /\ req'[r] = c /\ \A q \in Others(r) : req'[q] = req[q]
      BY <2>2, <2>4, CallUpdated
    <2>6. Sane(c)
      BY <1>1, <2>1, <2>3, TeamsAssumption DEF Sane, Op, Authorize, At, Role, Reads
    <2>7. Grounded(c)
      BY <2>3, TeamsAssumption DEF Grounded, Op
    <2>8. \A x \in TenantId : Locks(r, x)' =>
             Locks(r, x) \/ (tenants[x] # None /\ \A q \in Others(r) : ~Locks(q, x))
      BY <2>3, <2>5, TeamsAssumption DEF Locks, Op
    <2>9. \A x \in TenantId : Deletes(r, x)' => Deletes(r, x) \/ \A q \in Others(r) : ~Shares(q, x)
      BY <2>3, <2>5, TeamsAssumption DEF Deletes, Locks, Op
    <2>10. \A x \in TenantId : Shares(r, x)' =>
             Shares(r, x) \/ (tenants[x] # None /\ \A q \in Others(r) : ~Deletes(q, x))
      BY <2>3, <2>5, TeamsAssumption DEF Shares, Op
    <2>11. \A x \in TenantId, y \in User : HoldsInvitation(r, x, y)' =>
             HoldsInvitation(r, x, y) \/ \A q \in Others(r) : ~HoldsInvitation(q, x, y)
      BY <2>3, <2>5 DEF HoldsInvitation
    <2>12. c.op = "createTenant" /\ c.pc = "recorded" => c.tenant \in drawn' \ drawn
      BY <2>3, TeamsAssumption DEF Op
    <2> QED
      BY <2>2, <2>4, <2>5, <2>6, <2>7, <2>8, <2>9, <2>10, <2>11, <2>12 DEF Acts, Knows
  <1>2. ASSUME Authenticate(r)
        PROVE Acts(r)
    <2>0. PICK whose \in TenantId \cup {Unowned}, what \in {None} \cup Scope :
            Reads(r, [Idle EXCEPT !.pc = "authenticated", !.tenant = whose, !.scope = what])
      <3>1. [perms |-> Permission, names |-> All] \in Scope
        BY DEF Scope
      <3>2. \A k \in Key : keys[k] # None => keys[k] \in TenantId /\ (scopes[k] = None \/ scopes[k] \in Scope)
        BY DEF TypeOK
      <3> QED
        BY <1>2, <3>1, <3>2 DEF Authenticate
    <2> DEFINE c == [Idle EXCEPT !.pc = "authenticated", !.tenant = whose, !.scope = what]
    <2>1. req[r] \in Call /\ Idle \in Call /\ whose \in TenantId \cup {Unowned} /\ what \in {None} \cup Scope
      BY <2>0, IdleTyped DEF TypeOK
    <2>2. c \in Call
      BY <2>1, AuthenticatedTyped
    <2>3. /\ c.pc = "authenticated"
          /\ c.op = None
          /\ c.tenant = whose
          /\ c.scope = what
          /\ c.rows = {}
      BY DEF Idle
    <2>4. /\ Becomes(r, c) /\ Untouched
          /\ drawn \subseteq drawn' /\ drawn' \subseteq drawn \cup TenantId \cup Key
      BY <2>0 DEF Untouched, TypeOK, Reads
    <2> HIDE DEF c
    <2>5. req' \in [Request -> Call] /\ req'[r] = c /\ \A q \in Others(r) : req'[q] = req[q]
      BY <2>2, <2>4, CallUpdated
    <2>6. Sane(c)
      BY <2>0, <2>1, <2>3, TeamsAssumption DEF Sane, Op, Authenticate, At, Role, Reads
    <2>7. Grounded(c)
      BY <2>3, TeamsAssumption DEF Grounded, Op
    <2>8. \A x \in TenantId : Locks(r, x)' =>
             Locks(r, x) \/ (tenants[x] # None /\ \A q \in Others(r) : ~Locks(q, x))
      BY <2>3, <2>5, TeamsAssumption DEF Locks, Op
    <2>9. \A x \in TenantId : Deletes(r, x)' => Deletes(r, x) \/ \A q \in Others(r) : ~Shares(q, x)
      BY <2>3, <2>5, TeamsAssumption DEF Deletes, Locks, Op
    <2>10. \A x \in TenantId : Shares(r, x)' =>
             Shares(r, x) \/ (tenants[x] # None /\ \A q \in Others(r) : ~Deletes(q, x))
      BY <2>3, <2>5, TeamsAssumption DEF Shares, Op
    <2>11. \A x \in TenantId, y \in User : HoldsInvitation(r, x, y)' =>
             HoldsInvitation(r, x, y) \/ \A q \in Others(r) : ~HoldsInvitation(q, x, y)
      BY <2>3, <2>5 DEF HoldsInvitation
    <2>12. c.op = "createTenant" /\ c.pc = "recorded" => c.tenant \in drawn' \ drawn
      BY <2>3, TeamsAssumption DEF Op
    <2> QED
      BY <2>2, <2>4, <2>5, <2>6, <2>7, <2>8, <2>9, <2>10, <2>11, <2>12 DEF Acts, Knows
  <1>3. ASSUME NEW n \in Namespace, ResolveForMember(r, n)
        PROVE Acts(r)
    <2>0. PICK t \in TenantId :
            Reads(r, [Idle EXCEPT !.pc = "resolved", !.op = "deleteNamespace", !.tenant = t, !.name = n])
      BY <1>3 DEF ResolveForMember
    <2> DEFINE c == [Idle EXCEPT !.pc = "resolved", !.op = "deleteNamespace", !.tenant = t, !.name = n]
    <2>1. req[r] \in Call /\ Idle \in Call
      BY <2>0, IdleTyped DEF TypeOK
    <2>2. c \in Call
      BY <2>1, SMT, ZenonT(40) DEF Call, Op
    <2>3. /\ c.pc = "resolved"
          /\ c.op = "deleteNamespace"
          /\ c.tenant = t
          /\ c.name = n
          /\ c.rows = {}
      BY DEF Idle
    <2>4. /\ Becomes(r, c) /\ Untouched
          /\ drawn \subseteq drawn' /\ drawn' \subseteq drawn \cup TenantId \cup Key
      BY <2>0 DEF Untouched, TypeOK, Reads
    <2> HIDE DEF c
    <2>5. req' \in [Request -> Call] /\ req'[r] = c /\ \A q \in Others(r) : req'[q] = req[q]
      BY <2>2, <2>4, CallUpdated
    <2>6. Sane(c)
      BY <2>0, <2>1, <2>3, TeamsAssumption DEF Sane, Op, ResolveForMember, At, Role, Reads
    <2>7. Grounded(c)
      BY <2>3, TeamsAssumption DEF Grounded, Op
    <2>8. \A x \in TenantId : Locks(r, x)' =>
             Locks(r, x) \/ (tenants[x] # None /\ \A q \in Others(r) : ~Locks(q, x))
      BY <2>3, <2>5, TeamsAssumption DEF Locks, Op
    <2>9. \A x \in TenantId : Deletes(r, x)' => Deletes(r, x) \/ \A q \in Others(r) : ~Shares(q, x)
      BY <2>3, <2>5, TeamsAssumption DEF Deletes, Locks, Op
    <2>10. \A x \in TenantId : Shares(r, x)' =>
             Shares(r, x) \/ (tenants[x] # None /\ \A q \in Others(r) : ~Deletes(q, x))
      BY <2>3, <2>5, TeamsAssumption DEF Shares, Op
    <2>11. \A x \in TenantId, y \in User : HoldsInvitation(r, x, y)' =>
             HoldsInvitation(r, x, y) \/ \A q \in Others(r) : ~HoldsInvitation(q, x, y)
      BY <2>3, <2>5 DEF HoldsInvitation
    <2>12. c.op = "createTenant" /\ c.pc = "recorded" => c.tenant \in drawn' \ drawn
      BY <2>3, TeamsAssumption DEF Op
    <2> QED
      BY <2>2, <2>4, <2>5, <2>6, <2>7, <2>8, <2>9, <2>10, <2>11, <2>12 DEF Acts, Knows
  <1>4. ASSUME NEW n \in Namespace, ResolveForKey(r, n)
        PROVE Acts(r)
    <2> DEFINE c == [Idle EXCEPT !.pc = "resolved", !.op = "deleteNamespace", !.tenant = req[r].tenant, !.name = n]
    <2>1. req[r] \in Call /\ Idle \in Call /\ req[r].tenant \in TenantId \cup {Unowned}
      BY <1>4, IdleTyped DEF TypeOK, Sane, ResolveForKey, Permits
    <2>2. c \in Call
      BY <2>1, SMT, ZenonT(40) DEF Call, Op
    <2>3. /\ c.pc = "resolved"
          /\ c.op = "deleteNamespace"
          /\ c.tenant = req[r].tenant
          /\ c.name = n
          /\ c.rows = {}
      BY DEF Idle
    <2>4. /\ Becomes(r, c) /\ Untouched
          /\ drawn \subseteq drawn' /\ drawn' \subseteq drawn \cup TenantId \cup Key
      BY <1>4 DEF ResolveForKey, Untouched, TypeOK, Reads, Permits
    <2> HIDE DEF c
    <2>5. req' \in [Request -> Call] /\ req'[r] = c /\ \A q \in Others(r) : req'[q] = req[q]
      BY <2>2, <2>4, CallUpdated
    <2>6. Sane(c)
      BY <1>4, <2>1, <2>3, TeamsAssumption DEF Sane, Op, ResolveForKey, At, Role, Reads, Permits
    <2>7. Grounded(c)
      BY <2>3, TeamsAssumption DEF Grounded, Op
    <2>8. \A x \in TenantId : Locks(r, x)' =>
             Locks(r, x) \/ (tenants[x] # None /\ \A q \in Others(r) : ~Locks(q, x))
      BY <2>3, <2>5, TeamsAssumption DEF Locks, Op
    <2>9. \A x \in TenantId : Deletes(r, x)' => Deletes(r, x) \/ \A q \in Others(r) : ~Shares(q, x)
      BY <2>3, <2>5, TeamsAssumption DEF Deletes, Locks, Op
    <2>10. \A x \in TenantId : Shares(r, x)' =>
             Shares(r, x) \/ (tenants[x] # None /\ \A q \in Others(r) : ~Deletes(q, x))
      BY <2>3, <2>5, TeamsAssumption DEF Shares, Op
    <2>11. \A x \in TenantId, y \in User : HoldsInvitation(r, x, y)' =>
             HoldsInvitation(r, x, y) \/ \A q \in Others(r) : ~HoldsInvitation(q, x, y)
      BY <2>3, <2>5 DEF HoldsInvitation
    <2>12. c.op = "createTenant" /\ c.pc = "recorded" => c.tenant \in drawn' \ drawn
      BY <2>3, TeamsAssumption DEF Op
    <2> QED
      BY <2>2, <2>4, <2>5, <2>6, <2>7, <2>8, <2>9, <2>10, <2>11, <2>12 DEF Acts, Knows
  <1> QED
    BY <1>1, <1>2, <1>3, <1>4 DEF Asking

\* A statement runs.
LEMMA WorkingActs ==
    ASSUME TypeOK, TenantsAreDrawn, NEW r \in Request, Sane(req[r]), Grounded(req[r]), Working(r)
    PROVE Acts(r)
  <1>1. ASSUME NEW t \in TenantId, NEW u \in User, AcceptInvitation(r, t, u)
        PROVE Acts(r)
    <2> DEFINE c == [Idle EXCEPT !.pc = "locked", !.op = "accept", !.tenant = t, !.user = u,
                                  !.role = invitations[t][u], !.rows = {u}]
    <2>1. req[r] \in Call /\ Idle \in Call /\ invitations[t][u] \in Role \cup {None}
      BY <1>1, IdleTyped DEF TypeOK
    <2>2. c \in Call
      BY <2>1, AcceptTyped DEF Op
    <2>3. /\ c.pc = "locked"
          /\ c.op = "accept"
          /\ c.tenant = t
          /\ c.user = u
          /\ c.role = invitations[t][u]
          /\ c.rows = {u}
      BY DEF Idle
    <2>4. /\ Becomes(r, c) /\ Untouched
          /\ drawn \subseteq drawn' /\ drawn' \subseteq drawn \cup TenantId \cup Key
      BY <1>1 DEF AcceptInvitation, Untouched, TypeOK, Reads, Invited
    <2> HIDE DEF c
    <2>5. req' \in [Request -> Call] /\ req'[r] = c /\ \A q \in Others(r) : req'[q] = req[q]
      BY <2>2, <2>4, CallUpdated
    <2>6. Sane(c)
      BY <1>1, <2>1, <2>3, TeamsAssumption DEF Sane, Op, AcceptInvitation, At, Role, Reads, Invited
    <2>7. Grounded(c)
      BY <1>1, <2>3, TeamsAssumption DEF Grounded, Op, AcceptInvitation, Invited
    <2>8. \A x \in TenantId : Locks(r, x)' =>
             Locks(r, x) \/ (tenants[x] # None /\ \A q \in Others(r) : ~Locks(q, x))
      BY <2>3, <2>5, TeamsAssumption DEF Locks, Op
    <2>9. \A x \in TenantId : Deletes(r, x)' => Deletes(r, x) \/ \A q \in Others(r) : ~Shares(q, x)
      BY <2>3, <2>5, TeamsAssumption DEF Deletes, Locks, Op
    <2>10. \A x \in TenantId : Shares(r, x)' =>
             Shares(r, x) \/ (tenants[x] # None /\ \A q \in Others(r) : ~Deletes(q, x))
      BY <2>3, <2>5, TeamsAssumption DEF Shares, Op
    <2>11. \A x \in TenantId, y \in User : HoldsInvitation(r, x, y)' =>
             HoldsInvitation(r, x, y) \/ \A q \in Others(r) : ~HoldsInvitation(q, x, y)
      BY <1>1, <2>3, <2>5 DEF HoldsInvitation, AcceptInvitation, Invited, Others
    <2>12. c.op = "createTenant" /\ c.pc = "recorded" => c.tenant \in drawn' \ drawn
      BY <2>3, TeamsAssumption DEF Op
    <2> QED
      BY <2>2, <2>4, <2>5, <2>6, <2>7, <2>8, <2>9, <2>10, <2>11, <2>12 DEF Acts, Knows
  <1>2. ASSUME NEW t \in TenantId, NEW u \in User, DeclineInvitation(r, t, u)
        PROVE Acts(r)
    <2> DEFINE c == [Idle EXCEPT !.pc = "recorded", !.op = "decline", !.tenant = t, !.user = u,
                                  !.rows = {u}]
    <2>1. req[r] \in Call /\ Idle \in Call
      BY <1>2, IdleTyped DEF TypeOK
    <2>2. c \in Call
      BY <2>1, DeclineTyped DEF Op
    <2>3. /\ c.pc = "recorded"
          /\ c.op = "decline"
          /\ c.tenant = t
          /\ c.user = u
          /\ c.role = None
          /\ c.rows = {u}
      BY DEF Idle
    <2>4. /\ Becomes(r, c) /\ Untouched
          /\ drawn \subseteq drawn' /\ drawn' \subseteq drawn \cup TenantId \cup Key
      BY <1>2 DEF DeclineInvitation, Untouched, TypeOK, Invited
    <2> HIDE DEF c
    <2>5. req' \in [Request -> Call] /\ req'[r] = c /\ \A q \in Others(r) : req'[q] = req[q]
      BY <2>2, <2>4, CallUpdated
    <2>6. Sane(c)
      BY <1>2, <2>1, <2>3, TeamsAssumption DEF Sane, Op, DeclineInvitation, At, Role, Invited
    <2>7. Grounded(c)
      BY <2>3, TeamsAssumption DEF Grounded, Op
    <2>8. \A x \in TenantId : Locks(r, x)' =>
             Locks(r, x) \/ (tenants[x] # None /\ \A q \in Others(r) : ~Locks(q, x))
      BY <2>3, <2>5, TeamsAssumption DEF Locks, Op
    <2>9. \A x \in TenantId : Deletes(r, x)' => Deletes(r, x) \/ \A q \in Others(r) : ~Shares(q, x)
      BY <2>3, <2>5, TeamsAssumption DEF Deletes, Locks, Op
    <2>10. \A x \in TenantId : Shares(r, x)' =>
             Shares(r, x) \/ (tenants[x] # None /\ \A q \in Others(r) : ~Deletes(q, x))
      BY <2>3, <2>5, TeamsAssumption DEF Shares, Op
    <2>11. \A x \in TenantId, y \in User : HoldsInvitation(r, x, y)' =>
             HoldsInvitation(r, x, y) \/ \A q \in Others(r) : ~HoldsInvitation(q, x, y)
      BY <1>2, <2>3, <2>5 DEF HoldsInvitation, DeclineInvitation, Invited, Others
    <2>12. c.op = "createTenant" /\ c.pc = "recorded" => c.tenant \in drawn' \ drawn
      BY <2>3, TeamsAssumption DEF Op
    <2> QED
      BY <2>2, <2>4, <2>5, <2>6, <2>7, <2>8, <2>9, <2>10, <2>11, <2>12 DEF Acts, Knows
  <1>3. ASSUME NEW t \in TenantId, NEW n \in Name, NEW u \in User, CreateTenant(r, t, n, u)
        PROVE Acts(r)
    <2> DEFINE c == [Idle EXCEPT !.pc = "recorded", !.op = "createTenant", !.tenant = t,
                                  !.name = n, !.user = u]
    <2>1. req[r] \in Call /\ Idle \in Call
      BY <1>3, IdleTyped DEF TypeOK
    <2>2. c \in Call
      BY <2>1, SMT, ZenonT(40) DEF Call, Op
    <2>3. /\ c.pc = "recorded"
          /\ c.op = "createTenant"
          /\ c.tenant = t
          /\ c.user = u
          /\ c.name = n
          /\ c.rows = {}
      BY DEF Idle
    <2>4. /\ Becomes(r, c) /\ Untouched
          /\ drawn \subseteq drawn' /\ drawn' \subseteq drawn \cup TenantId \cup Key
      BY <1>3 DEF CreateTenant, Untouched, TypeOK
    <2> HIDE DEF c
    <2>5. req' \in [Request -> Call] /\ req'[r] = c /\ \A q \in Others(r) : req'[q] = req[q]
      BY <2>2, <2>4, CallUpdated
    <2>6. Sane(c)
      BY <1>3, <2>1, <2>3, TeamsAssumption DEF Sane, Op, CreateTenant, At, Role
    <2>7. Grounded(c)
      BY <1>3, <2>3, TeamsAssumption DEF Grounded, Op, CreateTenant, TenantsAreDrawn
    <2>8. \A x \in TenantId : Locks(r, x)' =>
             Locks(r, x) \/ (tenants[x] # None /\ \A q \in Others(r) : ~Locks(q, x))
      BY <2>3, <2>5, TeamsAssumption DEF Locks, Op
    <2>9. \A x \in TenantId : Deletes(r, x)' => Deletes(r, x) \/ \A q \in Others(r) : ~Shares(q, x)
      BY <2>3, <2>5, TeamsAssumption DEF Deletes, Locks, Op
    <2>10. \A x \in TenantId : Shares(r, x)' =>
             Shares(r, x) \/ (tenants[x] # None /\ \A q \in Others(r) : ~Deletes(q, x))
      BY <2>3, <2>5, TeamsAssumption DEF Shares, Op
    <2>11. \A x \in TenantId, y \in User : HoldsInvitation(r, x, y)' =>
             HoldsInvitation(r, x, y) \/ \A q \in Others(r) : ~HoldsInvitation(q, x, y)
      BY <2>3, <2>5 DEF HoldsInvitation
    <2>12. c.op = "createTenant" /\ c.pc = "recorded" => c.tenant \in drawn' \ drawn
      BY <1>3, <2>3, TeamsAssumption DEF Op, CreateTenant
    <2> QED
      BY <2>2, <2>4, <2>5, <2>6, <2>7, <2>8, <2>9, <2>10, <2>11, <2>12 DEF Acts, Knows
  <1>4. ASSUME NEW op \in {"setRole", "remove"}, NEW u \in User, NEW role \in Role \cup {None},
                 op = "setRole" => role # None, op = "remove" => role = None, LockTenant(r, op, u, role)
        PROVE Acts(r)
    <2> DEFINE c == [Calls(r, op) EXCEPT !.pc = "locked", !.user = u, !.role = role]
    <2>1. req[r] \in Call /\ Idle \in Call
      BY <1>4, IdleTyped DEF TypeOK
    <2>2. c \in Call
      BY <2>1, SMT, ZenonT(40) DEF Call, Op, Calls
    <2>3. /\ c.pc = "locked"
          /\ c.op = op
          /\ c.tenant = req[r].tenant
          /\ c.user = u
          /\ c.role = role
          /\ c.rows = req[r].rows
      BY <1>4, <2>1 DEF LockTenant, At, Idle, Call, Op, Calls, Reads, IsOwner, ActsOn
    <2>4. /\ Becomes(r, c) /\ Untouched
          /\ drawn \subseteq drawn' /\ drawn' \subseteq drawn \cup TenantId \cup Key
      BY <1>4 DEF LockTenant, Untouched, TypeOK, Reads, IsOwner, ActsOn
    <2> HIDE DEF c
    <2>5. req' \in [Request -> Call] /\ req'[r] = c /\ \A q \in Others(r) : req'[q] = req[q]
      BY <2>2, <2>4, CallUpdated
    <2>6. Sane(c)
      BY <1>4, <2>1, <2>3, TeamsAssumption DEF Sane, Op, LockTenant, At, Role, Reads, IsOwner, ActsOn
    <2>7. Grounded(c)
      BY <2>3, TeamsAssumption DEF Grounded, Op
    <2>8. \A x \in TenantId : Locks(r, x)' =>
             Locks(r, x) \/ (tenants[x] # None /\ \A q \in Others(r) : ~Locks(q, x))
      BY <1>4, <2>3, <2>5, TeamsAssumption DEF Locks, Op, LockTenant
    <2>9. \A x \in TenantId : Deletes(r, x)' => Deletes(r, x) \/ \A q \in Others(r) : ~Shares(q, x)
      BY <2>3, <2>5, TeamsAssumption DEF Deletes, Locks, Op
    <2>10. \A x \in TenantId : Shares(r, x)' =>
             Shares(r, x) \/ (tenants[x] # None /\ \A q \in Others(r) : ~Deletes(q, x))
      BY <2>3, <2>5, TeamsAssumption DEF Shares, Op
    <2>11. \A x \in TenantId, y \in User : HoldsInvitation(r, x, y)' =>
             HoldsInvitation(r, x, y) \/ \A q \in Others(r) : ~HoldsInvitation(q, x, y)
      BY <2>3, <2>5 DEF HoldsInvitation
    <2>12. c.op = "createTenant" /\ c.pc = "recorded" => c.tenant \in drawn' \ drawn
      BY <2>3, TeamsAssumption DEF Op
    <2> QED
      BY <2>2, <2>4, <2>5, <2>6, <2>7, <2>8, <2>9, <2>10, <2>11, <2>12 DEF Acts, Knows
  <1>5. ASSUME NEW u \in User, NEW role \in Role, PurgeInvitations(r, u, role)
        PROVE Acts(r)
    <2> DEFINE c == [Calls(r, "invite") EXCEPT !.pc = "purged", !.user = u, !.role = role,
                                             !.rows = Purgeable(req[r].tenant)]
    <2>1. req[r] \in Call /\ Idle \in Call /\ Purgeable(req[r].tenant) \subseteq User
      BY <1>5, IdleTyped DEF TypeOK, Purgeable
    <2>2. c \in Call
      BY <2>1, SMT, ZenonT(40) DEF Call, Op, Calls
    <2>3. /\ c.pc = "purged"
          /\ c.op = "invite"
          /\ c.tenant = req[r].tenant
          /\ c.user = u
          /\ c.role = role
          /\ c.rows = Purgeable(req[r].tenant)
      BY <1>5, <2>1 DEF PurgeInvitations, At, Idle, Call, Op, Calls, Reads, IsOwner
    <2>4. /\ Becomes(r, c) /\ Untouched
          /\ drawn \subseteq drawn' /\ drawn' \subseteq drawn \cup TenantId \cup Key
      BY <1>5 DEF PurgeInvitations, Untouched, TypeOK, Reads, IsOwner
    <2> HIDE DEF c
    <2>5. req' \in [Request -> Call] /\ req'[r] = c /\ \A q \in Others(r) : req'[q] = req[q]
      BY <2>2, <2>4, CallUpdated
    <2>6. Sane(c)
      BY <1>5, <2>1, <2>3, TeamsAssumption DEF Sane, Op, PurgeInvitations, At, Role, Reads, IsOwner
    <2>7. Grounded(c)
      BY <2>3, TeamsAssumption DEF Grounded, Op
    <2>8. \A x \in TenantId : Locks(r, x)' =>
             Locks(r, x) \/ (tenants[x] # None /\ \A q \in Others(r) : ~Locks(q, x))
      BY <2>3, <2>5, TeamsAssumption DEF Locks, Op
    <2>9. \A x \in TenantId : Deletes(r, x)' => Deletes(r, x) \/ \A q \in Others(r) : ~Shares(q, x)
      BY <2>3, <2>5, TeamsAssumption DEF Deletes, Locks, Op
    <2>10. \A x \in TenantId : Shares(r, x)' =>
             Shares(r, x) \/ (tenants[x] # None /\ \A q \in Others(r) : ~Deletes(q, x))
      BY <2>3, <2>5, TeamsAssumption DEF Shares, Op
    <2>11. \A x \in TenantId, y \in User : HoldsInvitation(r, x, y)' =>
             HoldsInvitation(r, x, y) \/ \A q \in Others(r) : ~HoldsInvitation(q, x, y)
      BY <1>5, <2>3, <2>5 DEF HoldsInvitation, PurgeInvitations
    <2>12. c.op = "createTenant" /\ c.pc = "recorded" => c.tenant \in drawn' \ drawn
      BY <2>3, TeamsAssumption DEF Op
    <2> QED
      BY <2>2, <2>4, <2>5, <2>6, <2>7, <2>8, <2>9, <2>10, <2>11, <2>12 DEF Acts, Knows
  <1>6. ASSUME NEW u \in User, RevokeInvitation(r, u)
        PROVE Acts(r)
    <2> DEFINE c == [Calls(r, "revoke") EXCEPT !.pc = "recorded", !.user = u, !.role = None,
                                             !.rows = {u}]
    <2>1. req[r] \in Call /\ Idle \in Call
      BY <1>6, IdleTyped DEF TypeOK
    <2>2. c \in Call
      BY <2>1, SMT, ZenonT(40) DEF Call, Op, Calls
    <2>3. /\ c.pc = "recorded"
          /\ c.op = "revoke"
          /\ c.tenant = req[r].tenant
          /\ c.user = u
          /\ c.role = None
          /\ c.rows = {u}
      BY <1>6, <2>1 DEF RevokeInvitation, At, Idle, Call, Op, Calls, IsOwner
    <2>4. /\ Becomes(r, c) /\ Untouched
          /\ drawn \subseteq drawn' /\ drawn' \subseteq drawn \cup TenantId \cup Key
      BY <1>6 DEF RevokeInvitation, Untouched, TypeOK, IsOwner
    <2> HIDE DEF c
    <2>5. req' \in [Request -> Call] /\ req'[r] = c /\ \A q \in Others(r) : req'[q] = req[q]
      BY <2>2, <2>4, CallUpdated
    <2>6. Sane(c)
      BY <1>6, <2>1, <2>3, TeamsAssumption DEF Sane, Op, RevokeInvitation, At, Role, IsOwner
    <2>7. Grounded(c)
      BY <2>3, TeamsAssumption DEF Grounded, Op
    <2>8. \A x \in TenantId : Locks(r, x)' =>
             Locks(r, x) \/ (tenants[x] # None /\ \A q \in Others(r) : ~Locks(q, x))
      BY <2>3, <2>5, TeamsAssumption DEF Locks, Op
    <2>9. \A x \in TenantId : Deletes(r, x)' => Deletes(r, x) \/ \A q \in Others(r) : ~Shares(q, x)
      BY <2>3, <2>5, TeamsAssumption DEF Deletes, Locks, Op
    <2>10. \A x \in TenantId : Shares(r, x)' =>
             Shares(r, x) \/ (tenants[x] # None /\ \A q \in Others(r) : ~Deletes(q, x))
      BY <2>3, <2>5, TeamsAssumption DEF Shares, Op
    <2>11. \A x \in TenantId, y \in User : HoldsInvitation(r, x, y)' =>
             HoldsInvitation(r, x, y) \/ \A q \in Others(r) : ~HoldsInvitation(q, x, y)
      BY <1>6, <2>3, <2>5 DEF HoldsInvitation, RevokeInvitation
    <2>12. c.op = "createTenant" /\ c.pc = "recorded" => c.tenant \in drawn' \ drawn
      BY <2>3, TeamsAssumption DEF Op
    <2> QED
      BY <2>2, <2>4, <2>5, <2>6, <2>7, <2>8, <2>9, <2>10, <2>11, <2>12 DEF Acts, Knows
  <1>7. ASSUME SetMemberRole(r)
        PROVE Acts(r)
    <2> DEFINE c == [req[r] EXCEPT !.pc = "recorded"]
    <2>1. req[r] \in Call /\ Idle \in Call
      BY <1>7, IdleTyped DEF TypeOK
    <2>2. c \in Call
      BY <2>1, SMT, ZenonT(40) DEF Call, Op
    <2>3. /\ c.pc = "recorded"
          /\ c.op = "setRole"
          /\ c.tenant = req[r].tenant
          /\ c.user = req[r].user
          /\ c.role = req[r].role
          /\ c.rows = req[r].rows
      BY <1>7, <2>1 DEF SetMemberRole, At, Idle, Call, Op, Goes
    <2>4. /\ Becomes(r, c) /\ Untouched
          /\ drawn \subseteq drawn' /\ drawn' \subseteq drawn \cup TenantId \cup Key
      BY <1>7 DEF SetMemberRole, Untouched, TypeOK, Goes
    <2> HIDE DEF c
    <2>5. req' \in [Request -> Call] /\ req'[r] = c /\ \A q \in Others(r) : req'[q] = req[q]
      BY <2>2, <2>4, CallUpdated
    <2>6. Sane(c)
      BY <1>7, <2>1, <2>3, TeamsAssumption DEF Sane, Op, SetMemberRole, At, Role, Goes
    <2>7. Grounded(c)
      BY <1>7, <2>3, TeamsAssumption DEF Grounded, Op, SetMemberRole, At
    <2>8. \A x \in TenantId : Locks(r, x)' =>
             Locks(r, x) \/ (tenants[x] # None /\ \A q \in Others(r) : ~Locks(q, x))
      <3>1. req[r].pc = "locked" /\ req[r].op = "setRole"
        BY <1>7 DEF SetMemberRole, At
      <3> QED
        BY <2>3, <2>5, <3>1 DEF Locks
    <2>9. \A x \in TenantId : Deletes(r, x)' => Deletes(r, x) \/ \A q \in Others(r) : ~Shares(q, x)
      BY <2>3, <2>5, TeamsAssumption DEF Deletes, Locks, Op
    <2>10. \A x \in TenantId : Shares(r, x)' =>
             Shares(r, x) \/ (tenants[x] # None /\ \A q \in Others(r) : ~Deletes(q, x))
      BY <2>3, <2>5, TeamsAssumption DEF Shares, Op
    <2>11. \A x \in TenantId, y \in User : HoldsInvitation(r, x, y)' =>
             HoldsInvitation(r, x, y) \/ \A q \in Others(r) : ~HoldsInvitation(q, x, y)
      BY <2>3, <2>5 DEF HoldsInvitation
    <2>12. c.op = "createTenant" /\ c.pc = "recorded" => c.tenant \in drawn' \ drawn
      BY <2>3, TeamsAssumption DEF Op
    <2> QED
      BY <2>2, <2>4, <2>5, <2>6, <2>7, <2>8, <2>9, <2>10, <2>11, <2>12 DEF Acts, Knows
  <1>8. ASSUME RemoveMember(r)
        PROVE Acts(r)
    <2> DEFINE c == [req[r] EXCEPT !.pc = "recorded"]
    <2>1. req[r] \in Call /\ Idle \in Call
      BY <1>8, IdleTyped DEF TypeOK
    <2>2. c \in Call
      BY <2>1, SMT, ZenonT(40) DEF Call, Op
    <2>3. /\ c.pc = "recorded"
          /\ c.op = "remove"
          /\ c.tenant = req[r].tenant
          /\ c.user = req[r].user
          /\ c.role = req[r].role
          /\ c.rows = req[r].rows
      BY <1>8, <2>1 DEF RemoveMember, At, Idle, Call, Op, Goes
    <2>4. /\ Becomes(r, c) /\ Untouched
          /\ drawn \subseteq drawn' /\ drawn' \subseteq drawn \cup TenantId \cup Key
      BY <1>8 DEF RemoveMember, Untouched, TypeOK, Goes
    <2> HIDE DEF c
    <2>5. req' \in [Request -> Call] /\ req'[r] = c /\ \A q \in Others(r) : req'[q] = req[q]
      BY <2>2, <2>4, CallUpdated
    <2>6. Sane(c)
      BY <1>8, <2>1, <2>3, TeamsAssumption DEF Sane, Op, RemoveMember, At, Role, Goes
    <2>7. Grounded(c)
      BY <1>8, <2>3, TeamsAssumption DEF Grounded, Op, RemoveMember, At
    <2>8. \A x \in TenantId : Locks(r, x)' =>
             Locks(r, x) \/ (tenants[x] # None /\ \A q \in Others(r) : ~Locks(q, x))
      <3>1. req[r].pc = "locked" /\ req[r].op = "remove"
        BY <1>8 DEF RemoveMember, At
      <3> QED
        BY <2>3, <2>5, <3>1 DEF Locks
    <2>9. \A x \in TenantId : Deletes(r, x)' => Deletes(r, x) \/ \A q \in Others(r) : ~Shares(q, x)
      BY <2>3, <2>5, TeamsAssumption DEF Deletes, Locks, Op
    <2>10. \A x \in TenantId : Shares(r, x)' =>
             Shares(r, x) \/ (tenants[x] # None /\ \A q \in Others(r) : ~Deletes(q, x))
      BY <2>3, <2>5, TeamsAssumption DEF Shares, Op
    <2>11. \A x \in TenantId, y \in User : HoldsInvitation(r, x, y)' =>
             HoldsInvitation(r, x, y) \/ \A q \in Others(r) : ~HoldsInvitation(q, x, y)
      BY <2>3, <2>5 DEF HoldsInvitation
    <2>12. c.op = "createTenant" /\ c.pc = "recorded" => c.tenant \in drawn' \ drawn
      BY <2>3, TeamsAssumption DEF Op
    <2> QED
      BY <2>2, <2>4, <2>5, <2>6, <2>7, <2>8, <2>9, <2>10, <2>11, <2>12 DEF Acts, Knows
  <1>9. ASSUME UpsertInvitation(r)
        PROVE Acts(r)
    <2> DEFINE c == [req[r] EXCEPT !.pc = "recorded", !.rows = @ \cup {req[r].user}]
    <2>1. req[r] \in Call /\ Idle \in Call /\ req[r].user \in User
      BY <1>9, IdleTyped DEF TypeOK, Sane, UpsertInvitation, At
    <2>2. c \in Call
      BY <2>1, SMT, ZenonT(40) DEF Call, Op
    <2>3. /\ c.pc = "recorded"
          /\ c.op = "invite"
          /\ c.tenant = req[r].tenant
          /\ c.user = req[r].user
          /\ c.role = req[r].role
          /\ c.rows = req[r].rows \cup {req[r].user}
      BY <1>9, <2>1 DEF UpsertInvitation, At, Idle, Call, Op
    <2>4. /\ Becomes(r, c) /\ Untouched
          /\ drawn \subseteq drawn' /\ drawn' \subseteq drawn \cup TenantId \cup Key
      BY <1>9 DEF UpsertInvitation, Untouched, TypeOK
    <2> HIDE DEF c
    <2>5. req' \in [Request -> Call] /\ req'[r] = c /\ \A q \in Others(r) : req'[q] = req[q]
      BY <2>2, <2>4, CallUpdated
    <2>6. Sane(c)
      BY <1>9, <2>1, <2>3, TeamsAssumption DEF Sane, Op, UpsertInvitation, At, Role
    <2>7. Grounded(c)
      BY <2>3, TeamsAssumption DEF Grounded, Op
    <2>8. \A x \in TenantId : Locks(r, x)' =>
             Locks(r, x) \/ (tenants[x] # None /\ \A q \in Others(r) : ~Locks(q, x))
      BY <2>3, <2>5, TeamsAssumption DEF Locks, Op
    <2>9. \A x \in TenantId : Deletes(r, x)' => Deletes(r, x) \/ \A q \in Others(r) : ~Shares(q, x)
      BY <2>3, <2>5, TeamsAssumption DEF Deletes, Locks, Op
    <2>10. \A x \in TenantId : Shares(r, x)' =>
             Shares(r, x) \/ (tenants[x] # None /\ \A q \in Others(r) : ~Deletes(q, x))
      BY <1>9, <2>3, <2>5, TeamsAssumption DEF Shares, Op, UpsertInvitation, Free, Waits, At
    <2>11. \A x \in TenantId, y \in User : HoldsInvitation(r, x, y)' =>
             HoldsInvitation(r, x, y) \/ \A q \in Others(r) : ~HoldsInvitation(q, x, y)
      BY <1>9, <2>3, <2>5 DEF HoldsInvitation, UpsertInvitation, Free, Waits, At
    <2>12. c.op = "createTenant" /\ c.pc = "recorded" => c.tenant \in drawn' \ drawn
      BY <2>3, TeamsAssumption DEF Op
    <2> QED
      BY <2>2, <2>4, <2>5, <2>6, <2>7, <2>8, <2>9, <2>10, <2>11, <2>12 DEF Acts, Knows
  <1>10. ASSUME Join(r)
        PROVE Acts(r)
    <2> DEFINE role == IF members[req[r].tenant][req[r].user] = None THEN req[r].role ELSE None
    <2> DEFINE c == [req[r] EXCEPT !.pc = "recorded", !.role = role]
    <2>1. req[r] \in Call /\ Idle \in Call /\ role \in Role \cup {None}
      BY <1>10, IdleTyped DEF TypeOK, Call
    <2> HIDE DEF role
    <2>2. c \in Call
      BY <2>1, SMT, ZenonT(40) DEF Call, Op
    <2>3. /\ c.pc = "recorded"
          /\ c.op = "accept"
          /\ c.tenant = req[r].tenant
          /\ c.user = req[r].user
          /\ c.role = role
          /\ c.rows = req[r].rows
      BY <1>10, <2>1 DEF Join, At, Idle, Call, Op
    <2> USE DEF role
    <2>4. /\ Becomes(r, c) /\ Untouched
          /\ drawn \subseteq drawn' /\ drawn' \subseteq drawn \cup TenantId \cup Key
      BY <1>10 DEF Join, Untouched, TypeOK
    <2> HIDE DEF c
    <2>5. req' \in [Request -> Call] /\ req'[r] = c /\ \A q \in Others(r) : req'[q] = req[q]
      BY <2>2, <2>4, CallUpdated
    <2>6. Sane(c)
      BY <1>10, <2>1, <2>3, TeamsAssumption DEF Sane, Op, Join, At, Role
    <2>7. Grounded(c)
      BY <1>10, <2>3, TeamsAssumption DEF Grounded, Op, Join, At
    <2>8. \A x \in TenantId : Locks(r, x)' =>
             Locks(r, x) \/ (tenants[x] # None /\ \A q \in Others(r) : ~Locks(q, x))
      BY <2>3, <2>5, TeamsAssumption DEF Locks, Op
    <2>9. \A x \in TenantId : Deletes(r, x)' => Deletes(r, x) \/ \A q \in Others(r) : ~Shares(q, x)
      BY <2>3, <2>5, TeamsAssumption DEF Deletes, Locks, Op
    <2>10. \A x \in TenantId : Shares(r, x)' =>
             Shares(r, x) \/ (tenants[x] # None /\ \A q \in Others(r) : ~Deletes(q, x))
      BY <1>10, <2>3, <2>5, TeamsAssumption DEF Shares, Op, Join, Free, Waits, At
    <2>11. \A x \in TenantId, y \in User : HoldsInvitation(r, x, y)' =>
             HoldsInvitation(r, x, y) \/ \A q \in Others(r) : ~HoldsInvitation(q, x, y)
      BY <2>3, <2>5 DEF HoldsInvitation
    <2>12. c.op = "createTenant" /\ c.pc = "recorded" => c.tenant \in drawn' \ drawn
      BY <2>3, TeamsAssumption DEF Op
    <2> QED
      BY <2>2, <2>4, <2>5, <2>6, <2>7, <2>8, <2>9, <2>10, <2>11, <2>12 DEF Acts, Knows
  <1>11. ASSUME CheckEmpty(r)
        PROVE Acts(r)
    <2> DEFINE c == [Calls(r, "deleteTenant") EXCEPT !.pc = "delete", !.role = None]
    <2>1. req[r] \in Call /\ Idle \in Call
      BY <1>11, IdleTyped DEF TypeOK
    <2>2. c \in Call
      BY <2>1, SMT, ZenonT(40) DEF Call, Op, Calls
    <2>3. /\ c.pc = "delete"
          /\ c.op = "deleteTenant"
          /\ c.tenant = req[r].tenant
          /\ c.rows = req[r].rows
      BY <1>11, <2>1 DEF CheckEmpty, At, Idle, Call, Op, Calls, Reads, IsOwner
    <2>4. /\ Becomes(r, c) /\ Untouched
          /\ drawn \subseteq drawn' /\ drawn' \subseteq drawn \cup TenantId \cup Key
      BY <1>11 DEF CheckEmpty, Untouched, TypeOK, Reads, IsOwner
    <2> HIDE DEF c
    <2>5. req' \in [Request -> Call] /\ req'[r] = c /\ \A q \in Others(r) : req'[q] = req[q]
      BY <2>2, <2>4, CallUpdated
    <2>6. Sane(c)
      BY <1>11, <2>1, <2>3, TeamsAssumption DEF Sane, Op, CheckEmpty, At, Role, Reads, IsOwner
    <2>7. Grounded(c)
      BY <2>3, TeamsAssumption DEF Grounded, Op
    <2>8. \A x \in TenantId : Locks(r, x)' =>
             Locks(r, x) \/ (tenants[x] # None /\ \A q \in Others(r) : ~Locks(q, x))
      BY <2>3, <2>5, TeamsAssumption DEF Locks, Op
    <2>9. \A x \in TenantId : Deletes(r, x)' => Deletes(r, x) \/ \A q \in Others(r) : ~Shares(q, x)
      BY <2>3, <2>5, TeamsAssumption DEF Deletes, Locks, Op
    <2>10. \A x \in TenantId : Shares(r, x)' =>
             Shares(r, x) \/ (tenants[x] # None /\ \A q \in Others(r) : ~Deletes(q, x))
      BY <2>3, <2>5, TeamsAssumption DEF Shares, Op
    <2>11. \A x \in TenantId, y \in User : HoldsInvitation(r, x, y)' =>
             HoldsInvitation(r, x, y) \/ \A q \in Others(r) : ~HoldsInvitation(q, x, y)
      BY <2>3, <2>5 DEF HoldsInvitation
    <2>12. c.op = "createTenant" /\ c.pc = "recorded" => c.tenant \in drawn' \ drawn
      BY <2>3, TeamsAssumption DEF Op
    <2> QED
      BY <2>2, <2>4, <2>5, <2>6, <2>7, <2>8, <2>9, <2>10, <2>11, <2>12 DEF Acts, Knows
  <1>12. ASSUME DeleteRow(r)
        PROVE Acts(r)
    <2> DEFINE c == [req[r] EXCEPT !.pc = "cascade"]
    <2>1. req[r] \in Call /\ Idle \in Call
      BY <1>12, IdleTyped DEF TypeOK
    <2>2. c \in Call
      BY <2>1, SMT, ZenonT(40) DEF Call, Op
    <2>3. /\ c.pc = "cascade"
          /\ c.op = "deleteTenant"
          /\ c.tenant = req[r].tenant
          /\ c.rows = req[r].rows
      BY <1>12, <2>1 DEF DeleteRow, At, Idle, Call, Op, Goes
    <2>4. /\ Becomes(r, c) /\ Untouched
          /\ drawn \subseteq drawn' /\ drawn' \subseteq drawn \cup TenantId \cup Key
      BY <1>12 DEF DeleteRow, Untouched, TypeOK, Goes
    <2> HIDE DEF c
    <2>5. req' \in [Request -> Call] /\ req'[r] = c /\ \A q \in Others(r) : req'[q] = req[q]
      BY <2>2, <2>4, CallUpdated
    <2>6. Sane(c)
      BY <1>12, <2>1, <2>3, TeamsAssumption DEF Sane, Op, DeleteRow, At, Role, Goes
    <2>7. Grounded(c)
      BY <2>3, TeamsAssumption DEF Grounded, Op
    <2>8. \A x \in TenantId : Locks(r, x)' =>
             Locks(r, x) \/ (tenants[x] # None /\ \A q \in Others(r) : ~Locks(q, x))
      BY <1>12, <2>3, <2>5, TeamsAssumption DEF Locks, Op, DeleteRow, Free, Waits, At
    <2>9. \A x \in TenantId : Deletes(r, x)' => Deletes(r, x) \/ \A q \in Others(r) : ~Shares(q, x)
      BY <1>12, <2>3, <2>5, TeamsAssumption DEF Deletes, Op, Locks, DeleteRow, Free, Waits, At
    <2>10. \A x \in TenantId : Shares(r, x)' =>
             Shares(r, x) \/ (tenants[x] # None /\ \A q \in Others(r) : ~Deletes(q, x))
      BY <2>3, <2>5, TeamsAssumption DEF Shares, Op
    <2>11. \A x \in TenantId, y \in User : HoldsInvitation(r, x, y)' =>
             HoldsInvitation(r, x, y) \/ \A q \in Others(r) : ~HoldsInvitation(q, x, y)
      BY <2>3, <2>5 DEF HoldsInvitation
    <2>12. c.op = "createTenant" /\ c.pc = "recorded" => c.tenant \in drawn' \ drawn
      BY <2>3, TeamsAssumption DEF Op
    <2> QED
      BY <2>2, <2>4, <2>5, <2>6, <2>7, <2>8, <2>9, <2>10, <2>11, <2>12 DEF Acts, Knows
  <1>13. ASSUME Cascade(r)
        PROVE Acts(r)
    <2> DEFINE c == [req[r] EXCEPT !.pc = "recorded",
                                     !.rows = {u \in User : invitations[req[r].tenant][u] # None}]
    <2>1. req[r] \in Call /\ Idle \in Call
      BY <1>13, IdleTyped DEF TypeOK
    <2>2. c \in Call
      BY <2>1, SMT, ZenonT(40) DEF Call, Op
    <2>3. /\ c.pc = "recorded"
          /\ c.op = "deleteTenant"
          /\ c.tenant = req[r].tenant
          /\ c.rows = {u \in User : invitations[req[r].tenant][u] # None}
      BY <1>13, <2>1 DEF Cascade, At, Idle, Call, Op
    <2>4. /\ Becomes(r, c) /\ Untouched
          /\ drawn \subseteq drawn' /\ drawn' \subseteq drawn \cup TenantId \cup Key
      BY <1>13 DEF Cascade, Untouched, TypeOK
    <2> HIDE DEF c
    <2>5. req' \in [Request -> Call] /\ req'[r] = c /\ \A q \in Others(r) : req'[q] = req[q]
      BY <2>2, <2>4, CallUpdated
    <2>6. Sane(c)
      BY <1>13, <2>1, <2>3, TeamsAssumption DEF Sane, Op, Cascade, At, Role
    <2>7. Grounded(c)
      BY <1>13, <2>3, TeamsAssumption DEF Grounded, Op, Cascade, At
    <2>8. \A x \in TenantId : Locks(r, x)' =>
             Locks(r, x) \/ (tenants[x] # None /\ \A q \in Others(r) : ~Locks(q, x))
      <3>1. req[r].pc = "cascade" /\ req[r].op = "deleteTenant"
        BY <1>13 DEF Cascade, At
      <3> QED
        BY <2>3, <2>5, <3>1 DEF Locks
    <2>9. \A x \in TenantId : Deletes(r, x)' => Deletes(r, x) \/ \A q \in Others(r) : ~Shares(q, x)
      BY <1>13, <2>3, <2>5, TeamsAssumption DEF Deletes, Op, Locks, Cascade, At
    <2>10. \A x \in TenantId : Shares(r, x)' =>
             Shares(r, x) \/ (tenants[x] # None /\ \A q \in Others(r) : ~Deletes(q, x))
      BY <2>3, <2>5, TeamsAssumption DEF Shares, Op
    <2>11. \A x \in TenantId, y \in User : HoldsInvitation(r, x, y)' =>
             HoldsInvitation(r, x, y) \/ \A q \in Others(r) : ~HoldsInvitation(q, x, y)
      BY <1>13, <2>3, <2>5 DEF HoldsInvitation, Cascade, Free, Waits, At
    <2>12. c.op = "createTenant" /\ c.pc = "recorded" => c.tenant \in drawn' \ drawn
      BY <2>3, TeamsAssumption DEF Op
    <2> QED
      BY <2>2, <2>4, <2>5, <2>6, <2>7, <2>8, <2>9, <2>10, <2>11, <2>12 DEF Acts, Knows
  <1>14. ASSUME NEW n \in Namespace, InsertNamespace(r, n)
        PROVE Acts(r)
    <2> DEFINE c == [Idle EXCEPT !.pc = "recorded", !.op = "createNamespace", !.tenant = req[r].tenant, !.name = n]
    <2>1. req[r] \in Call /\ Idle \in Call /\ req[r].tenant \in TenantId \cup {Unowned}
      BY <1>14, IdleTyped DEF TypeOK, Sane, InsertNamespace, Permits
    <2>2. c \in Call
      BY <2>1, SMT, ZenonT(40) DEF Call, Op
    <2>3. /\ c.pc = "recorded"
          /\ c.op = "createNamespace"
          /\ c.tenant = req[r].tenant
          /\ c.name = n
          /\ c.rows = {}
      BY DEF Idle
    <2>4. /\ Becomes(r, c) /\ Untouched
          /\ drawn \subseteq drawn' /\ drawn' \subseteq drawn \cup TenantId \cup Key
      BY <1>14 DEF InsertNamespace, Untouched, TypeOK
    <2> HIDE DEF c
    <2>5. req' \in [Request -> Call] /\ req'[r] = c /\ \A q \in Others(r) : req'[q] = req[q]
      BY <2>2, <2>4, CallUpdated
    <2>6. Sane(c)
      BY <1>14, <2>1, <2>3, TeamsAssumption DEF Sane, Op, InsertNamespace, At, Role
    <2>7. Grounded(c)
      BY <2>3, TeamsAssumption DEF Grounded, Op
    <2>8. \A x \in TenantId : Locks(r, x)' =>
             Locks(r, x) \/ (tenants[x] # None /\ \A q \in Others(r) : ~Locks(q, x))
      BY <2>3, <2>5, TeamsAssumption DEF Locks, Op
    <2>9. \A x \in TenantId : Deletes(r, x)' => Deletes(r, x) \/ \A q \in Others(r) : ~Shares(q, x)
      BY <2>3, <2>5, TeamsAssumption DEF Deletes, Locks, Op
    <2>10. \A x \in TenantId : Shares(r, x)' =>
             Shares(r, x) \/ (tenants[x] # None /\ \A q \in Others(r) : ~Deletes(q, x))
      BY <1>14, <2>3, <2>5, TeamsAssumption DEF Shares, Op, InsertNamespace
    <2>11. \A x \in TenantId, y \in User : HoldsInvitation(r, x, y)' =>
             HoldsInvitation(r, x, y) \/ \A q \in Others(r) : ~HoldsInvitation(q, x, y)
      BY <2>3, <2>5 DEF HoldsInvitation
    <2>12. c.op = "createTenant" /\ c.pc = "recorded" => c.tenant \in drawn' \ drawn
      BY <2>3, TeamsAssumption DEF Op
    <2> QED
      BY <2>2, <2>4, <2>5, <2>6, <2>7, <2>8, <2>9, <2>10, <2>11, <2>12 DEF Acts, Knows
  <1>15. ASSUME DeleteNamespace(r)
        PROVE Acts(r)
    <2> DEFINE c == [req[r] EXCEPT !.pc = "recorded"]
    <2>1. req[r] \in Call /\ Idle \in Call
      BY <1>15, IdleTyped DEF TypeOK
    <2>2. c \in Call
      BY <2>1, SMT, ZenonT(40) DEF Call, Op
    <2>3. /\ c.pc = "recorded"
          /\ c.op = "deleteNamespace"
          /\ c.tenant = req[r].tenant
          /\ c.name = req[r].name
          /\ c.rows = req[r].rows
      BY <1>15, <2>1 DEF DeleteNamespace, At, Idle, Call, Op, Goes
    <2>4. /\ Becomes(r, c) /\ Untouched
          /\ drawn \subseteq drawn' /\ drawn' \subseteq drawn \cup TenantId \cup Key
      BY <1>15 DEF DeleteNamespace, Untouched, TypeOK, Goes
    <2> HIDE DEF c
    <2>5. req' \in [Request -> Call] /\ req'[r] = c /\ \A q \in Others(r) : req'[q] = req[q]
      BY <2>2, <2>4, CallUpdated
    <2>6. Sane(c)
      BY <1>15, <2>1, <2>3, TeamsAssumption DEF Sane, Op, DeleteNamespace, At, Role, Goes
    <2>7. Grounded(c)
      BY <2>3, TeamsAssumption DEF Grounded, Op
    <2>8. \A x \in TenantId : Locks(r, x)' =>
             Locks(r, x) \/ (tenants[x] # None /\ \A q \in Others(r) : ~Locks(q, x))
      BY <2>3, <2>5, TeamsAssumption DEF Locks, Op
    <2>9. \A x \in TenantId : Deletes(r, x)' => Deletes(r, x) \/ \A q \in Others(r) : ~Shares(q, x)
      BY <2>3, <2>5, TeamsAssumption DEF Deletes, Locks, Op
    <2>10. \A x \in TenantId : Shares(r, x)' =>
             Shares(r, x) \/ (tenants[x] # None /\ \A q \in Others(r) : ~Deletes(q, x))
      BY <2>3, <2>5, TeamsAssumption DEF Shares, Op
    <2>11. \A x \in TenantId, y \in User : HoldsInvitation(r, x, y)' =>
             HoldsInvitation(r, x, y) \/ \A q \in Others(r) : ~HoldsInvitation(q, x, y)
      BY <2>3, <2>5 DEF HoldsInvitation
    <2>12. c.op = "createTenant" /\ c.pc = "recorded" => c.tenant \in drawn' \ drawn
      BY <2>3, TeamsAssumption DEF Op
    <2> QED
      BY <2>2, <2>4, <2>5, <2>6, <2>7, <2>8, <2>9, <2>10, <2>11, <2>12 DEF Acts, Knows
  <1>16. ASSUME NEW scope \in Scopes, NormalizeScope(r, scope)
        PROVE Acts(r)
    <2> DEFINE c == [Calls(r, "createKey") EXCEPT !.pc = "scoped", !.role = None, !.scope = scope]
    <2>1. req[r] \in Call /\ Idle \in Call /\ scope \in Scope
      BY <1>16, IdleTyped, TeamsAssumption DEF TypeOK
    <2>2. c \in Call
      BY <2>1, SMT, ZenonT(40) DEF Call, Op, Calls
    <2>3. /\ c.pc = "scoped"
          /\ c.op = "createKey"
          /\ c.tenant = req[r].tenant
          /\ c.scope = scope
          /\ c.rows = req[r].rows
      BY <1>16, <2>1 DEF NormalizeScope, At, Idle, Call, Op, Calls, Reads, IsOwner
    <2>4. /\ Becomes(r, c) /\ Untouched
          /\ drawn \subseteq drawn' /\ drawn' \subseteq drawn \cup TenantId \cup Key
      BY <1>16 DEF NormalizeScope, Untouched, TypeOK, Reads, IsOwner
    <2> HIDE DEF c
    <2>5. req' \in [Request -> Call] /\ req'[r] = c /\ \A q \in Others(r) : req'[q] = req[q]
      BY <2>2, <2>4, CallUpdated
    <2>6. Sane(c)
      BY <1>16, <2>1, <2>3, TeamsAssumption DEF Sane, Op, NormalizeScope, At, Role, Reads, IsOwner
    <2>7. Grounded(c)
      BY <2>3, TeamsAssumption DEF Grounded, Op
    <2>8. \A x \in TenantId : Locks(r, x)' =>
             Locks(r, x) \/ (tenants[x] # None /\ \A q \in Others(r) : ~Locks(q, x))
      BY <2>3, <2>5, TeamsAssumption DEF Locks, Op
    <2>9. \A x \in TenantId : Deletes(r, x)' => Deletes(r, x) \/ \A q \in Others(r) : ~Shares(q, x)
      BY <2>3, <2>5, TeamsAssumption DEF Deletes, Locks, Op
    <2>10. \A x \in TenantId : Shares(r, x)' =>
             Shares(r, x) \/ (tenants[x] # None /\ \A q \in Others(r) : ~Deletes(q, x))
      BY <2>3, <2>5, TeamsAssumption DEF Shares, Op
    <2>11. \A x \in TenantId, y \in User : HoldsInvitation(r, x, y)' =>
             HoldsInvitation(r, x, y) \/ \A q \in Others(r) : ~HoldsInvitation(q, x, y)
      BY <2>3, <2>5 DEF HoldsInvitation
    <2>12. c.op = "createTenant" /\ c.pc = "recorded" => c.tenant \in drawn' \ drawn
      BY <2>3, TeamsAssumption DEF Op
    <2> QED
      BY <2>2, <2>4, <2>5, <2>6, <2>7, <2>8, <2>9, <2>10, <2>11, <2>12 DEF Acts, Knows
  <1>17. ASSUME NEW k \in Key, InsertKey(r, k)
        PROVE Acts(r)
    <2> DEFINE c == [req[r] EXCEPT !.pc = "recorded", !.key = k]
    <2>1. req[r] \in Call /\ Idle \in Call
      BY <1>17, IdleTyped DEF TypeOK
    <2>2. c \in Call
      BY <2>1, SMT, ZenonT(40) DEF Call, Op
    <2>3. /\ c.pc = "recorded"
          /\ c.op = "createKey"
          /\ c.tenant = req[r].tenant
          /\ c.key = k
          /\ c.scope = req[r].scope
          /\ c.rows = req[r].rows
      BY <1>17, <2>1 DEF InsertKey, At, Idle, Call, Op
    <2>4. /\ Becomes(r, c) /\ Untouched
          /\ drawn \subseteq drawn' /\ drawn' \subseteq drawn \cup TenantId \cup Key
      BY <1>17 DEF InsertKey, Untouched, TypeOK
    <2> HIDE DEF c
    <2>5. req' \in [Request -> Call] /\ req'[r] = c /\ \A q \in Others(r) : req'[q] = req[q]
      BY <2>2, <2>4, CallUpdated
    <2>6. Sane(c)
      BY <1>17, <2>1, <2>3, TeamsAssumption DEF Sane, Op, InsertKey, At, Role
    <2>7. Grounded(c)
      BY <2>3, TeamsAssumption DEF Grounded, Op
    <2>8. \A x \in TenantId : Locks(r, x)' =>
             Locks(r, x) \/ (tenants[x] # None /\ \A q \in Others(r) : ~Locks(q, x))
      BY <2>3, <2>5, TeamsAssumption DEF Locks, Op
    <2>9. \A x \in TenantId : Deletes(r, x)' => Deletes(r, x) \/ \A q \in Others(r) : ~Shares(q, x)
      BY <2>3, <2>5, TeamsAssumption DEF Deletes, Locks, Op
    <2>10. \A x \in TenantId : Shares(r, x)' =>
             Shares(r, x) \/ (tenants[x] # None /\ \A q \in Others(r) : ~Deletes(q, x))
      BY <1>17, <2>3, <2>5, TeamsAssumption DEF Shares, Op, InsertKey, Free, Waits, At
    <2>11. \A x \in TenantId, y \in User : HoldsInvitation(r, x, y)' =>
             HoldsInvitation(r, x, y) \/ \A q \in Others(r) : ~HoldsInvitation(q, x, y)
      BY <2>3, <2>5 DEF HoldsInvitation
    <2>12. c.op = "createTenant" /\ c.pc = "recorded" => c.tenant \in drawn' \ drawn
      BY <2>3, TeamsAssumption DEF Op
    <2> QED
      BY <2>2, <2>4, <2>5, <2>6, <2>7, <2>8, <2>9, <2>10, <2>11, <2>12 DEF Acts, Knows
  <1>18. ASSUME NEW k \in Key, DeleteKey(r, k)
        PROVE Acts(r)
    <2> DEFINE c == [Calls(r, "deleteKey") EXCEPT !.pc = "recorded", !.role = None, !.key = k]
    <2>1. req[r] \in Call /\ Idle \in Call
      BY <1>18, IdleTyped DEF TypeOK
    <2>2. c \in Call
      BY <2>1, SMT, ZenonT(40) DEF Call, Op, Calls
    <2>3. /\ c.pc = "recorded"
          /\ c.op = "deleteKey"
          /\ c.tenant = req[r].tenant
          /\ c.key = k
          /\ c.scope = req[r].scope
          /\ c.rows = req[r].rows
      BY <1>18, <2>1 DEF DeleteKey, At, Idle, Call, Op, Calls, IsOwner
    <2>4. /\ Becomes(r, c) /\ Untouched
          /\ drawn \subseteq drawn' /\ drawn' \subseteq drawn \cup TenantId \cup Key
      BY <1>18 DEF DeleteKey, Untouched, TypeOK, IsOwner
    <2> HIDE DEF c
    <2>5. req' \in [Request -> Call] /\ req'[r] = c /\ \A q \in Others(r) : req'[q] = req[q]
      BY <2>2, <2>4, CallUpdated
    <2>6. Sane(c)
      BY <1>18, <2>1, <2>3, TeamsAssumption DEF Sane, Op, DeleteKey, At, Role, IsOwner
    <2>7. Grounded(c)
      BY <2>3, TeamsAssumption DEF Grounded, Op
    <2>8. \A x \in TenantId : Locks(r, x)' =>
             Locks(r, x) \/ (tenants[x] # None /\ \A q \in Others(r) : ~Locks(q, x))
      BY <2>3, <2>5, TeamsAssumption DEF Locks, Op
    <2>9. \A x \in TenantId : Deletes(r, x)' => Deletes(r, x) \/ \A q \in Others(r) : ~Shares(q, x)
      BY <2>3, <2>5, TeamsAssumption DEF Deletes, Locks, Op
    <2>10. \A x \in TenantId : Shares(r, x)' =>
             Shares(r, x) \/ (tenants[x] # None /\ \A q \in Others(r) : ~Deletes(q, x))
      BY <2>3, <2>5, TeamsAssumption DEF Shares, Op
    <2>11. \A x \in TenantId, y \in User : HoldsInvitation(r, x, y)' =>
             HoldsInvitation(r, x, y) \/ \A q \in Others(r) : ~HoldsInvitation(q, x, y)
      BY <2>3, <2>5 DEF HoldsInvitation
    <2>12. c.op = "createTenant" /\ c.pc = "recorded" => c.tenant \in drawn' \ drawn
      BY <2>3, TeamsAssumption DEF Op
    <2> QED
      BY <2>2, <2>4, <2>5, <2>6, <2>7, <2>8, <2>9, <2>10, <2>11, <2>12 DEF Acts, Knows
  <1>19. \A u \in User, role \in Role : LockTenant(r, "setRole", u, role) => Acts(r)
    BY <1>4, TeamsAssumption
  <1>20. \A u \in User : LockTenant(r, "remove", u, None) => Acts(r)
    BY <1>4, TeamsAssumption
  <1> QED
    BY <1>1, <1>2, <1>3, <1>4, <1>5, <1>6, <1>7, <1>8, <1>9, <1>10, <1>11, <1>12, <1>13,
       <1>14, <1>15, <1>16, <1>17, <1>18, <1>19, <1>20 DEF Working

\* A request gives up.
LEMMA AbandonActs ==
    ASSUME TypeOK, TenantsAreDrawn, NEW r \in Request, Sane(req[r]), Grounded(req[r]), Abandon(r)
    PROVE Acts(r)
  <1>1. ASSUME Abandon(r)
        PROVE Acts(r)
    <2> DEFINE c == Idle
    <2>1. req[r] \in Call /\ Idle \in Call
      BY <1>1, IdleTyped DEF TypeOK
    <2>2. c \in Call
      BY <2>1, SMT, ZenonT(40) DEF Call, Op
    <2>3. /\ c.pc = "idle"
          /\ c.op = None
          /\ c.tenant = None
          /\ c.rows = {}
      BY DEF Idle
    <2>4. /\ Becomes(r, c) /\ Untouched
          /\ drawn \subseteq drawn' /\ drawn' \subseteq drawn \cup TenantId \cup Key
      BY <1>1 DEF Abandon, Untouched, TypeOK
    <2> HIDE DEF c
    <2>5. req' \in [Request -> Call] /\ req'[r] = c /\ \A q \in Others(r) : req'[q] = req[q]
      BY <2>2, <2>4, CallUpdated
    <2>6. Sane(c)
      BY <1>1, <2>1, <2>3, TeamsAssumption DEF Sane, Op, Abandon, At, Role
    <2>7. Grounded(c)
      BY <2>3, TeamsAssumption DEF Grounded, Op
    <2>8. \A x \in TenantId : Locks(r, x)' =>
             Locks(r, x) \/ (tenants[x] # None /\ \A q \in Others(r) : ~Locks(q, x))
      BY <2>3, <2>5, TeamsAssumption DEF Locks, Op
    <2>9. \A x \in TenantId : Deletes(r, x)' => Deletes(r, x) \/ \A q \in Others(r) : ~Shares(q, x)
      BY <2>3, <2>5, TeamsAssumption DEF Deletes, Locks, Op
    <2>10. \A x \in TenantId : Shares(r, x)' =>
             Shares(r, x) \/ (tenants[x] # None /\ \A q \in Others(r) : ~Deletes(q, x))
      BY <2>3, <2>5, TeamsAssumption DEF Shares, Op
    <2>11. \A x \in TenantId, y \in User : HoldsInvitation(r, x, y)' =>
             HoldsInvitation(r, x, y) \/ \A q \in Others(r) : ~HoldsInvitation(q, x, y)
      BY <2>3, <2>5 DEF HoldsInvitation
    <2>12. c.op = "createTenant" /\ c.pc = "recorded" => c.tenant \in drawn' \ drawn
      BY <2>3, TeamsAssumption DEF Op
    <2> QED
      BY <2>2, <2>4, <2>5, <2>6, <2>7, <2>8, <2>9, <2>10, <2>11, <2>12 DEF Acts, Knows
  <1> QED
    BY <1>1 DEF Abandon

\* The others keep what they hold.
LEMMA ActsOthers ==
    ASSUME NEW r \in Request, Acts(r), NEW q \in Others(r)
    PROVE /\ q \in Request /\ q # r /\ req'[q] = req[q]
          /\ \A t \in TenantId :
                /\ Locks(q, t)' <=> Locks(q, t)
                /\ Deletes(q, t)' <=> Deletes(q, t)
                /\ Shares(q, t)' <=> Shares(q, t)
                /\ \A u \in User : HoldsInvitation(q, t, u)' <=> HoldsInvitation(q, t, u)
  BY DEF Acts, Others, Locks, Deletes, Shares, HoldsInvitation

LEMMA ActsKeepExclusion ==
    ASSUME IInv, NEW r \in Request, Acts(r)
    PROVE Exclusive'
  <1>1. ASSUME NEW q \in Others(r), NEW t \in TenantId
        PROVE /\ ~(Locks(r, t)' /\ Locks(q, t)')
              /\ ~(Deletes(r, t)' /\ Shares(q, t)')
              /\ ~(Deletes(q, t)' /\ Shares(r, t)')
              /\ \A u \in User : ~(HoldsInvitation(r, t, u)' /\ HoldsInvitation(q, t, u)')
    <2>1. r \in Others(q) /\ q \in Request
      BY DEF Others
    <2>2. /\ ~(Locks(r, t) /\ Locks(q, t))
          /\ ~(Deletes(r, t) /\ Shares(q, t))
          /\ ~(Deletes(q, t) /\ Shares(r, t))
          /\ \A u \in User : ~(HoldsInvitation(r, t, u) /\ HoldsInvitation(q, t, u))
      BY <2>1 DEF IInv, Exclusive
    <2>3. /\ Locks(q, t)' <=> Locks(q, t)
          /\ Deletes(q, t)' <=> Deletes(q, t)
          /\ Shares(q, t)' <=> Shares(q, t)
          /\ \A u \in User : HoldsInvitation(q, t, u)' <=> HoldsInvitation(q, t, u)
      BY ActsOthers
    <2> QED
      BY <2>2, <2>3 DEF Acts
  <1>2. ASSUME NEW q \in Others(r)
        PROVE At(r, "recorded", "createTenant")' /\ At(q, "recorded", "createTenant")'
                => req'[r].tenant # req'[q].tenant
    BY ActsOthers DEF Acts, At, IInv, TenantsAreDrawn
  <1>3. ASSUME NEW p \in Request, NEW q \in Others(p), p # r, q # r
        PROVE /\ \A t \in TenantId :
                    /\ ~(Locks(p, t)' /\ Locks(q, t)')
                    /\ ~(Deletes(p, t)' /\ Shares(q, t)')
                    /\ \A u \in User : ~(HoldsInvitation(p, t, u)' /\ HoldsInvitation(q, t, u)')
              /\ At(p, "recorded", "createTenant")' /\ At(q, "recorded", "createTenant")'
                    => req'[p].tenant # req'[q].tenant
    <2>1. p \in Others(r) /\ q \in Others(r)
      BY <1>3 DEF Others
    <2>2. /\ \A t \in TenantId :
                /\ ~(Locks(p, t) /\ Locks(q, t))
                /\ ~(Deletes(p, t) /\ Shares(q, t))
                /\ \A u \in User : ~(HoldsInvitation(p, t, u) /\ HoldsInvitation(q, t, u))
          /\ At(p, "recorded", "createTenant") /\ At(q, "recorded", "createTenant")
                => req[p].tenant # req[q].tenant
      BY DEF IInv, Exclusive
    <2> QED
      BY <2>1, <2>2, ActsOthers DEF At
  <1>4. ASSUME NEW p \in Request, NEW q \in Others(p)
        PROVE /\ \A t \in TenantId :
                    /\ ~(Locks(p, t)' /\ Locks(q, t)')
                    /\ ~(Deletes(p, t)' /\ Shares(q, t)')
                    /\ \A u \in User : ~(HoldsInvitation(p, t, u)' /\ HoldsInvitation(q, t, u)')
              /\ At(p, "recorded", "createTenant")' /\ At(q, "recorded", "createTenant")'
                    => req'[p].tenant # req'[q].tenant
    <2>1. CASE p = r
      BY <1>1, <1>2, <2>1
    <2>2. CASE q = r
      <3>1. p \in Others(r)
        BY <2>2 DEF Others
      <3> QED
        BY <1>1, <1>2, <2>2, <3>1
    <2> QED
      BY <1>3, <2>1, <2>2
  <1> QED
    BY <1>4 DEF Exclusive, Others

\* The tables and what the requests know of them.
Joins ==
    \A t \in TenantId, u \in User :
       members[t][u] = None /\ members'[t][u] # None =>
          \/ tenants[t] = None
          \/ invitations[t][u] = members'[t][u] /\ invitations'[t][u] = None

LEMMA ActsKeep ==
    ASSUME IInv, NEW r \in Request, Acts(r)
    PROVE IInv' /\ Joins
  <1>1. UNCHANGED <<tenants, members, invitations, expired, namespaces, keys, scopes>>
    BY DEF Acts, Untouched, people, access
  <1>2. TypeOK'
    BY <1>1 DEF Acts, IInv, TypeOK
  <1>3. (\A q \in Request : Sane(req[q]))'
    BY ActsOthers DEF Acts, Knows, IInv, Others
  <1>4. ASSUME NEW q \in Request
        PROVE Grounded(req[q])'
    <2>1. Grounded(req'[q])
      BY ActsOthers DEF Acts, Knows, IInv, Others
    <2> QED
      BY <1>1, <2>1 DEF Grounded, OtherOwners
  <1>5. Exclusive'
    BY ActsKeepExclusion
  <1>6. ASSUME NEW q \in Request, NEW t \in TenantId, Locks(q, t)' \/ Shares(q, t)'
        PROVE tenants'[t] # None
    <2>1. CASE q = r
      BY <1>1, <1>6, <2>1 DEF Acts, IInv, HeldTeamsExist
    <2>2. CASE q \in Others(r)
      BY <1>1, <1>6, <2>2, ActsOthers DEF IInv, HeldTeamsExist
    <2> QED
      BY <2>1, <2>2 DEF Others
  <1>7. TenantsAreDrawn'
    <2>1. ASSUME NEW q \in Request, At(q, "recorded", "createTenant")'
          PROVE req'[q].tenant \in drawn'
      <3>1. CASE q = r
        BY <2>1, <3>1 DEF At, Acts
      <3>2. CASE q \in Others(r)
        BY <2>1, <3>2, ActsOthers DEF At, Acts, IInv, TenantsAreDrawn
      <3> QED
        BY <3>1, <3>2 DEF Others
    <2> QED
      BY <1>1, <2>1 DEF Acts, IInv, TenantsAreDrawn
  <1>8. TenantsHaveOwners' /\ NothingOutlivesItsTeam'
    BY <1>1 DEF IInv, TenantsHaveOwners, NothingOutlivesItsTeam
  <1> QED
    BY <1>1, <1>2, <1>3, <1>4, <1>5, <1>6, <1>7, <1>8 DEF IInv, HeldTeamsExist, Joins

----------------------------------------------------------------------------
(* Commits. *)

TablesTyped ==
    /\ tenants \in [TenantId -> Name \cup {None}]
    /\ members \in [TenantId -> [User -> Role \cup {None}]]
    /\ invitations \in [TenantId -> [User -> Role \cup {None}]]
    /\ expired \subseteq TenantId \X User
    /\ namespaces \in [Namespace -> TenantId \cup {Unowned, None}]
    /\ keys \in [Key -> TenantId \cup {None}]
    /\ scopes \in [Key -> {None} \cup {s \in Scope : s.perms # {}}]

\* A request ends, and the others stay where they are.
LEMMA EndsOthers ==
    ASSUME IInv, NEW r \in Request, Ends(r)
    PROVE /\ req' \in [Request -> Call] /\ req'[r] = Idle
          /\ \A q \in Others(r) :
                /\ q \in Request /\ q # r /\ req'[q] = req[q]
                /\ Sane(req[q]) /\ Grounded(req[q]) /\ req[q] \in Call
  BY IdleTyped DEF Ends, Becomes, IInv, TypeOK, Others

LEMMA EndsLocks ==
    ASSUME IInv, NEW r \in Request, Ends(r), NEW q \in Request, NEW t \in TenantId
    PROVE /\ Locks(q, t)' => q \in Others(r) /\ Locks(q, t)
          /\ Deletes(q, t)' => q \in Others(r) /\ Deletes(q, t)
          /\ Shares(q, t)' => q \in Others(r) /\ Shares(q, t)
          /\ \A u \in User : HoldsInvitation(q, t, u)' => q \in Others(r) /\ HoldsInvitation(q, t, u)
          /\ At(q, "recorded", "createTenant")' => q \in Others(r) /\ At(q, "recorded", "createTenant")
  <1>1. Idle.pc = "idle" /\ Idle.rows = {}
    BY DEF Idle
  <1>2. req'[r] = Idle /\ (q \in Others(r) => req'[q] = req[q])
    BY EndsOthers
  <1>3. CASE q = r
    BY <1>1, <1>2, <1>3 DEF Locks, Deletes, Shares, HoldsInvitation, At
  <1>4. CASE q \in Others(r)
    BY <1>2, <1>4 DEF Locks, Deletes, Shares, HoldsInvitation, At
  <1> QED
    BY <1>3, <1>4 DEF Others

LEMMA EndsKeepExclusion ==
    ASSUME IInv, NEW r \in Request, Ends(r)
    PROVE Exclusive'
  <1>1. ASSUME NEW p \in Request, NEW q \in Others(p)
        PROVE /\ \A t \in TenantId :
                    /\ ~(Locks(p, t)' /\ Locks(q, t)')
                    /\ ~(Deletes(p, t)' /\ Shares(q, t)')
                    /\ \A u \in User : ~(HoldsInvitation(p, t, u)' /\ HoldsInvitation(q, t, u)')
              /\ At(p, "recorded", "createTenant")' /\ At(q, "recorded", "createTenant")'
                    => req'[p].tenant # req'[q].tenant
    <2>1. q \in Request
      BY DEF Others
    <2>2. /\ \A t \in TenantId :
                /\ ~(Locks(p, t) /\ Locks(q, t))
                /\ ~(Deletes(p, t) /\ Shares(q, t))
                /\ \A u \in User : ~(HoldsInvitation(p, t, u) /\ HoldsInvitation(q, t, u))
          /\ At(p, "recorded", "createTenant") /\ At(q, "recorded", "createTenant")
                => req[p].tenant # req[q].tenant
      BY DEF IInv, Exclusive
    <2>3. ASSUME NEW t \in TenantId
          PROVE /\ ~(Locks(p, t)' /\ Locks(q, t)')
                /\ ~(Deletes(p, t)' /\ Shares(q, t)')
                /\ \A u \in User : ~(HoldsInvitation(p, t, u)' /\ HoldsInvitation(q, t, u)')
      BY <2>1, <2>2, EndsLocks
    <2>4. At(p, "recorded", "createTenant")' /\ At(q, "recorded", "createTenant")'
              => req'[p].tenant # req'[q].tenant
      <3>1. \A x \in {p, q} : At(x, "recorded", "createTenant")' =>
                At(x, "recorded", "createTenant") /\ req'[x] = req[x]
        <4>1. req'[r].pc # "recorded"
          BY EndsOthers DEF Idle
        <4> QED
          BY <2>1, <4>1, EndsOthers DEF At, Others
      <3> QED
        BY <2>2, <3>1
    <2> QED
      BY <2>3, <2>4
  <1> QED
    BY <1>1 DEF Exclusive, Others

\* What a commit has to show.
LEMMA CommitKeeps ==
    ASSUME IInv, NEW r \in Request, Ends(r), TablesTyped', drawn' = drawn,
           \A q \in Others(r) : Grounded(req[q])',
           \A t \in TenantId : tenants'[t] # None => t \in drawn,
           \A t \in TenantId : tenants'[t] = None =>
               \A q \in Others(r) : ~Locks(q, t) /\ ~Shares(q, t),
           TenantsHaveOwners', NothingOutlivesItsTeam'
    PROVE IInv'
  <1>1. Idle.pc = "idle" /\ Idle.op = None /\ Idle.rows = {}
    BY DEF Idle
  <1>2. TypeOK'
    BY EndsOthers DEF TypeOK, TablesTyped, IInv
  <1>3. (\A q \in Request : Sane(req[q]))'
    <2>1. Sane(Idle)
      BY <1>1, TeamsAssumption DEF Sane, Op
    <2> QED
      BY <2>1, EndsOthers DEF Others
  <1>4. (\A q \in Request : Grounded(req[q]))'
    <2>1. Grounded(req[r])'
      BY <1>1, EndsOthers, TeamsAssumption DEF Grounded, Op
    <2> QED
      BY <2>1 DEF Others
  <1>5. HeldTeamsExist'
    BY EndsLocks DEF HeldTeamsExist
  <1>6. TenantsAreDrawn'
    <2>1. ASSUME NEW q \in Request, At(q, "recorded", "createTenant")'
          PROVE req'[q].tenant \in drawn'
      BY <1>1, <2>1, EndsOthers DEF At, IInv, TenantsAreDrawn, Others
    <2> QED
      BY <2>1 DEF TenantsAreDrawn
  <1> QED
    BY <1>2, <1>3, <1>4, <1>5, <1>6, EndsKeepExclusion DEF IInv

\* A team's id was drawn for it alone, and nobody refers to it before it is there.
LEMMA CommitTenantKeeps ==
    ASSUME IInv, NEW r \in Request, CommitTenant(r)
    PROVE IInv' /\ Joins
  <1> DEFINE t == req[r].tenant  u == req[r].user
  <1>1. /\ Ends(r) /\ req[r].pc = "recorded"
        /\ t \in TenantId /\ u \in User /\ req[r].op = "createTenant" /\ tenants[t] = None /\ t \in drawn
        /\ req[r].name \in Name
    BY DEF CommitTenant, Ends, IInv, Sane, Grounded, TenantsAreDrawn, At
  <1>2. /\ UNCHANGED <<invitations, expired, namespaces, keys, scopes, drawn>>
        /\ \A x \in TenantId : tenants'[x] = IF x = t THEN req[r].name ELSE tenants[x]
        /\ \A x \in TenantId, y \in User :
              members'[x][y] = IF x = t /\ y = u THEN "owner" ELSE members[x][y]
    BY <1>1 DEF CommitTenant, IInv, TypeOK, people, access
  <1>3. TablesTyped'
    BY <1>1 DEF CommitTenant, IInv, TypeOK, TablesTyped, people, access, Role
  <1> HIDE DEF t, u
  <1>4. ASSUME NEW q \in Others(r)
        PROVE Grounded(req[q])'
    <2>1. q \in Request /\ req'[q] = req[q] /\ Sane(req[q]) /\ Grounded(req[q])
      BY <1>1, EndsOthers
    <2>2. req[q].op = "createTenant" /\ req[q].pc = "recorded" => req[q].tenant # t
      BY <1>1, <2>1 DEF IInv, Exclusive, At, t
    <2>3. req[q].op \in {"setRole", "remove"} /\ req[q].pc = "recorded" => req[q].tenant # t
      BY <1>1, <2>1 DEF IInv, HeldTeamsExist, Locks
    <2>4. req[q].op = "accept" => req[q].tenant # t
      BY <1>1, <2>1 DEF IInv, NothingOutlivesItsTeam, Grounded, Sane
    <2> QED
      BY <1>1, <1>2, <2>1, <2>2, <2>3, <2>4 DEF Grounded, OtherOwners, Sane
  <1>5. TenantsHaveOwners'
    BY <1>1, <1>2 DEF TenantsHaveOwners, IInv
  <1>6. NothingOutlivesItsTeam'
    BY <1>1, <1>2, TeamsAssumption DEF NothingOutlivesItsTeam, IInv
  <1>7. \A x \in TenantId : tenants'[x] = None => \A q \in Others(r) : ~Locks(q, x) /\ ~Shares(q, x)
    BY <1>1, <1>2, TeamsAssumption DEF IInv, HeldTeamsExist, Others
  <1>8. \A x \in TenantId : tenants'[x] # None => x \in drawn
    BY <1>1, <1>2 DEF IInv, TenantsAreDrawn
  <1>9. Joins
    BY <1>1, <1>2 DEF Joins
  <1> QED
    BY <1>1, <1>2, <1>3, <1>4, <1>5, <1>6, <1>7, <1>8, <1>9, CommitKeeps

\* The team is locked, the deletion holds its invitations, and no namespace is its own.
LEMMA CommitDeletionKeeps ==
    ASSUME IInv, NEW r \in Request, CommitDeletion(r)
    PROVE IInv' /\ Joins
  <1> DEFINE t == req[r].tenant  u == req[r].user
  <1>1. /\ Ends(r) /\ req[r].pc = "recorded"
        /\ t \in TenantId /\ req[r].op = "deleteTenant" /\ Locks(r, t) /\ Deletes(r, t)
        /\ \A y \in User : invitations[t][y] # None => HoldsInvitation(r, t, y)
        /\ \A n \in Namespace : namespaces[n] # t
    BY DEF CommitDeletion, Ends, IInv, Sane, Grounded, Locks, Deletes, HoldsInvitation
  <1>2. /\ UNCHANGED <<namespaces, drawn>>
        /\ \A x \in TenantId : tenants'[x] = IF x = t THEN None ELSE tenants[x]
        /\ \A x \in TenantId, y \in User : members'[x][y] = IF x = t THEN None ELSE members[x][y]
        /\ \A x \in TenantId, y \in User : invitations'[x][y] = IF x = t THEN None ELSE invitations[x][y]
        /\ \A k \in Key : keys'[k] = IF keys[k] = t THEN None ELSE keys[k]
    BY <1>1 DEF CommitDeletion, IInv, TypeOK, people, access
  <1>3. TablesTyped'
    BY <1>1 DEF CommitDeletion, IInv, TypeOK, TablesTyped, people, access
  <1> HIDE DEF t, u
  <1>4. ASSUME NEW q \in Others(r)
        PROVE Grounded(req[q])'
    <2>1. q \in Request /\ req'[q] = req[q] /\ Sane(req[q]) /\ Grounded(req[q])
      BY <1>1, EndsOthers
    <2>2. req[q].op \in {"setRole", "remove", "deleteTenant"} /\ req[q].pc = "recorded"
             => req[q].tenant # t
      BY <1>1, <2>1 DEF IInv, Exclusive, Locks
    <2>3. req[q].op = "accept" => req[q].tenant # t
      <3>1. ASSUME req[q].op = "accept", req[q].tenant = t
            PROVE HoldsInvitation(q, t, req[q].user) /\ HoldsInvitation(r, t, req[q].user) /\ req[q].user \in User
        BY <1>1, <2>1, <3>1 DEF Sane, Grounded, HoldsInvitation
      <3> QED
        BY <1>1, <3>1 DEF IInv, Exclusive
    <2> QED
      BY <1>1, <1>2, <2>1, <2>2, <2>3 DEF Grounded, OtherOwners, Sane
  <1>5. TenantsHaveOwners'
    BY <1>1, <1>2 DEF TenantsHaveOwners, IInv
  <1>6. NothingOutlivesItsTeam'
    BY <1>1, <1>2, TeamsAssumption DEF NothingOutlivesItsTeam, IInv
  <1>7. \A x \in TenantId : tenants'[x] = None => \A q \in Others(r) : ~Locks(q, x) /\ ~Shares(q, x)
    BY <1>1, <1>2 DEF IInv, HeldTeamsExist, Exclusive, Others
  <1>8. \A x \in TenantId : tenants'[x] # None => x \in drawn
    BY <1>1, <1>2 DEF IInv, TenantsAreDrawn
  <1>9. Joins
    BY <1>1, <1>2 DEF Joins
  <1> QED
    BY <1>1, <1>2, <1>3, <1>4, <1>5, <1>6, <1>7, <1>8, <1>9, CommitKeeps

\* The team is locked: it has the owners it had when the change was allowed.
LEMMA CommitMemberKeeps ==
    ASSUME IInv, NEW r \in Request, CommitMember(r)
    PROVE IInv' /\ Joins
  <1> DEFINE t == req[r].tenant  u == req[r].user
  <1>1. /\ Ends(r) /\ req[r].pc = "recorded"
        /\ t \in TenantId /\ u \in User /\ req[r].op \in {"setRole", "remove"} /\ Locks(r, t)
        /\ tenants[t] # None /\ members[t][u] # None
        /\ members[t][u] = "owner" => \E o \in User : o # u /\ members[t][o] = "owner"
        /\ req[r].role \in Role \cup {None}
    BY DEF CommitMember, Ends, IInv, Sane, Grounded, Locks, HeldTeamsExist, OtherOwners
  <1>2. /\ UNCHANGED <<tenants, invitations, expired, namespaces, keys, scopes, drawn>>
        /\ \A x \in TenantId, y \in User :
              members'[x][y] = IF x = t /\ y = u THEN req[r].role ELSE members[x][y]
    BY <1>1 DEF CommitMember, IInv, TypeOK, people, access
  <1>3. TablesTyped'
    BY <1>1 DEF CommitMember, IInv, TypeOK, TablesTyped, people, access
  <1> HIDE DEF t, u
  <1>4. ASSUME NEW q \in Others(r)
        PROVE Grounded(req[q])'
    <2>1. q \in Request /\ req'[q] = req[q] /\ Sane(req[q]) /\ Grounded(req[q])
      BY <1>1, EndsOthers
    <2>2. req[q].op \in {"setRole", "remove"} /\ req[q].pc = "recorded" => req[q].tenant # t
      BY <1>1, <2>1 DEF IInv, Exclusive, Locks
    <2> QED
      BY <1>1, <1>2, <2>1, <2>2 DEF Grounded, OtherOwners, Sane
  <1>5. TenantsHaveOwners'
    BY <1>1, <1>2 DEF TenantsHaveOwners, IInv
  <1>6. NothingOutlivesItsTeam'
    BY <1>1, <1>2 DEF NothingOutlivesItsTeam, IInv
  <1>7. \A x \in TenantId : tenants'[x] = None => \A q \in Others(r) : ~Locks(q, x) /\ ~Shares(q, x)
    BY <1>2 DEF IInv, HeldTeamsExist, Others
  <1>8. \A x \in TenantId : tenants'[x] # None => x \in drawn
    BY <1>2 DEF IInv, TenantsAreDrawn
  <1>9. Joins
    BY <1>1, <1>2 DEF Joins
  <1> QED
    BY <1>1, <1>2, <1>3, <1>4, <1>5, <1>6, <1>7, <1>8, <1>9, CommitKeeps

\* The invitations that are purged or replaced are held, and the team stays.
LEMMA CommitInvitationKeeps ==
    ASSUME IInv, NEW r \in Request, CommitInvitation(r)
    PROVE IInv' /\ Joins
  <1> DEFINE t == req[r].tenant  u == req[r].user
  <1>1. /\ Ends(r) /\ req[r].pc = "recorded"
        /\ t \in TenantId /\ u \in User /\ req[r].op = "invite" /\ Shares(r, t) /\ tenants[t] # None
        /\ HoldsInvitation(r, t, u) /\ \A y \in req[r].rows : HoldsInvitation(r, t, y)
        /\ req[r].role \in Role
    BY DEF CommitInvitation, Ends, IInv, Sane, Shares, HeldTeamsExist, HoldsInvitation
  <1>2. /\ UNCHANGED <<tenants, members, namespaces, keys, scopes, drawn>>
        /\ \A x \in TenantId : x # t => invitations'[x] = invitations[x]
        /\ \A y \in User : y \notin req[r].rows /\ y # u => invitations'[t][y] = invitations[t][y]
    BY <1>1 DEF CommitInvitation, IInv, TypeOK, people, access
  <1>3. TablesTyped'
    BY <1>1 DEF CommitInvitation, IInv, TypeOK, TablesTyped, people, access
  <1> HIDE DEF t, u
  <1>4. ASSUME NEW q \in Others(r)
        PROVE Grounded(req[q])'
    <2>1. q \in Request /\ req'[q] = req[q] /\ Sane(req[q]) /\ Grounded(req[q])
      BY <1>1, EndsOthers
    <2>2. ~(req[q].op = "deleteTenant" /\ req[q].pc = "recorded" /\ req[q].tenant = t)
      <3>1. req[q].op = "deleteTenant" /\ req[q].pc = "recorded" /\ req[q].tenant = t => Deletes(q, t)
        BY DEF Deletes, Locks
      <3> QED
        BY <1>1, <2>1, <3>1 DEF IInv, Exclusive, Others
    <2>3. ASSUME req[q].op = "accept", req[q].tenant = t
          PROVE req[q].user \notin req[r].rows /\ req[q].user # u
      <3>1. HoldsInvitation(q, t, req[q].user) /\ req[q].user \in User
        BY <2>1, <2>3 DEF Sane, HoldsInvitation
      <3> QED
        BY <1>1, <3>1 DEF IInv, Exclusive
    <2> QED
      BY <1>1, <1>2, <2>1, <2>2, <2>3 DEF Grounded, OtherOwners, Sane
  <1>5. TenantsHaveOwners'
    BY <1>2 DEF TenantsHaveOwners, IInv
  <1>6. NothingOutlivesItsTeam'
    BY <1>1, <1>2 DEF NothingOutlivesItsTeam, IInv
  <1>7. \A x \in TenantId : tenants'[x] = None => \A q \in Others(r) : ~Locks(q, x) /\ ~Shares(q, x)
    BY <1>2 DEF IInv, HeldTeamsExist, Others
  <1>8. \A x \in TenantId : tenants'[x] # None => x \in drawn
    BY <1>2 DEF IInv, TenantsAreDrawn
  <1>9. Joins
    BY <1>2 DEF Joins
  <1> QED
    BY <1>1, <1>2, <1>3, <1>4, <1>5, <1>6, <1>7, <1>8, <1>9, CommitKeeps

\* The invitation is held until it is gone, and the user was no member when it was read.
LEMMA CommitAnswerKeeps ==
    ASSUME IInv, NEW r \in Request, CommitAnswer(r)
    PROVE IInv' /\ Joins
  <1> DEFINE t == req[r].tenant  u == req[r].user
  <1>1. /\ Ends(r) /\ req[r].pc = "recorded"
        /\ t \in TenantId /\ u \in User /\ req[r].op \in {"revoke", "decline", "accept"}
        /\ HoldsInvitation(r, t, u) /\ req[r].role \in Role \cup {None}
        /\ req[r].role # None =>
              tenants[t] # None /\ members[t][u] = None /\ invitations[t][u] = req[r].role
    BY DEF CommitAnswer, Ends, IInv, TypeOK, Call, Sane, Grounded, Shares, HeldTeamsExist, HoldsInvitation
  <1>2. /\ UNCHANGED <<tenants, namespaces, keys, scopes, drawn>>
        /\ \A x \in TenantId, y \in User :
              invitations'[x][y] = IF x = t /\ y = u THEN None ELSE invitations[x][y]
        /\ \A x \in TenantId, y \in User :
              members'[x][y] = IF req[r].role # None /\ x = t /\ y = u THEN req[r].role
                               ELSE members[x][y]
    BY <1>1 DEF CommitAnswer, IInv, TypeOK, people, access
  <1>3. TablesTyped'
    BY <1>1 DEF CommitAnswer, IInv, TypeOK, TablesTyped, people, access
  <1> HIDE DEF t, u
  <1>4. ASSUME NEW q \in Others(r)
        PROVE Grounded(req[q])'
    <2>1. q \in Request /\ req'[q] = req[q] /\ Sane(req[q]) /\ Grounded(req[q])
      BY <1>1, EndsOthers
    <2>2. ASSUME req[q].op = "accept", req[q].tenant = t
          PROVE req[q].user # u
      <3>1. HoldsInvitation(q, t, req[q].user) /\ req[q].user \in User
        BY <2>1, <2>2 DEF Sane, HoldsInvitation
      <3> QED
        BY <1>1, <3>1 DEF IInv, Exclusive
    <2> QED
      BY <1>1, <1>2, <2>1, <2>2 DEF Grounded, OtherOwners, Sane
  <1>5. TenantsHaveOwners'
    BY <1>1, <1>2, TeamsAssumption DEF TenantsHaveOwners, IInv, Role
  <1>6. NothingOutlivesItsTeam'
    BY <1>1, <1>2 DEF NothingOutlivesItsTeam, IInv
  <1>7. \A x \in TenantId : tenants'[x] = None => \A q \in Others(r) : ~Locks(q, x) /\ ~Shares(q, x)
    BY <1>2 DEF IInv, HeldTeamsExist, Others
  <1>8. \A x \in TenantId : tenants'[x] # None => x \in drawn
    BY <1>2 DEF IInv, TenantsAreDrawn
  <1>9. Joins
    BY <1>1, <1>2 DEF Joins
  <1> QED
    BY <1>1, <1>2, <1>3, <1>4, <1>5, <1>6, <1>7, <1>8, <1>9, CommitKeeps

\* The team that gets a namespace is referred to, so nobody deletes it.
LEMMA CommitNamespaceKeeps ==
    ASSUME IInv, NEW r \in Request, CommitNamespace(r)
    PROVE IInv' /\ Joins
  <1> DEFINE t == req[r].tenant  u == req[r].user
  <1>1. /\ Ends(r) /\ req[r].pc = "recorded"
        /\ req[r].name \in Namespace /\ t \in TenantId \cup {Unowned}
        /\ req[r].op \in {"createNamespace", "deleteNamespace"}
        /\ req[r].op = "createNamespace" /\ t # Unowned => Shares(r, t) /\ tenants[t] # None
    BY DEF CommitNamespace, Ends, IInv, Sane, Shares, HeldTeamsExist
  <1>2. /\ UNCHANGED <<tenants, members, invitations, expired, keys, scopes, drawn>>
        /\ \A n \in Namespace :
              namespaces'[n] = IF n # req[r].name THEN namespaces[n]
                               ELSE IF req[r].op = "createNamespace" THEN t ELSE None
    BY <1>1 DEF CommitNamespace, IInv, TypeOK, people, access
  <1>3. TablesTyped'
    BY <1>1 DEF CommitNamespace, IInv, TypeOK, TablesTyped, people, access
  <1> HIDE DEF t, u
  <1>4. ASSUME NEW q \in Others(r)
        PROVE Grounded(req[q])'
    <2>1. q \in Request /\ req'[q] = req[q] /\ Sane(req[q]) /\ Grounded(req[q])
      BY <1>1, EndsOthers
    <2>2. ASSUME req[q].op = "deleteTenant", req[q].pc = "recorded", NEW n \in Namespace
          PROVE namespaces'[n] # req[q].tenant
      <3>1. req[q].tenant \in TenantId /\ Deletes(q, req[q].tenant) /\ namespaces[n] # req[q].tenant
        BY <2>1, <2>2 DEF Sane, Grounded, Deletes, Locks
      <3>2. r \in Others(q)
        BY DEF Others
      <3> QED
        BY <1>1, <1>2, <2>1, <3>1, <3>2, TeamsAssumption DEF IInv, Exclusive
    <2> QED
      BY <1>2, <2>1, <2>2 DEF Grounded, OtherOwners
  <1>5. TenantsHaveOwners'
    BY <1>2 DEF TenantsHaveOwners, IInv
  <1>6. NothingOutlivesItsTeam'
    BY <1>1, <1>2, TeamsAssumption DEF NothingOutlivesItsTeam, IInv
  <1>7. \A x \in TenantId : tenants'[x] = None => \A q \in Others(r) : ~Locks(q, x) /\ ~Shares(q, x)
    BY <1>2 DEF IInv, HeldTeamsExist, Others
  <1>8. \A x \in TenantId : tenants'[x] # None => x \in drawn
    BY <1>2 DEF IInv, TenantsAreDrawn
  <1>9. Joins
    BY <1>2 DEF Joins
  <1> QED
    BY <1>1, <1>2, <1>3, <1>4, <1>5, <1>6, <1>7, <1>8, <1>9, CommitKeeps

\* So is the team that gets a key.
LEMMA CommitKeyKeeps ==
    ASSUME IInv, NEW r \in Request, CommitKey(r)
    PROVE IInv' /\ Joins
  <1> DEFINE t == req[r].tenant  u == req[r].user
  <1>1. /\ Ends(r) /\ req[r].pc = "recorded"
        /\ req[r].key \in Key /\ t \in TenantId /\ req[r].op \in {"createKey", "deleteKey"}
        /\ req[r].op = "createKey" => tenants[t] # None
        /\ req[r].scope \in {None} \cup {x \in Scope : x.perms # {}}
    BY DEF CommitKey, Ends, IInv, Sane, Shares, HeldTeamsExist
  <1>2. /\ UNCHANGED <<tenants, members, invitations, expired, namespaces, drawn>>
        /\ \A k \in Key :
              keys'[k] = IF k # req[r].key THEN keys[k]
                         ELSE IF req[r].op = "createKey" THEN t ELSE None
    BY <1>1 DEF CommitKey, IInv, TypeOK, people, access
  <1>3. TablesTyped'
    BY <1>1 DEF CommitKey, IInv, TypeOK, TablesTyped, people, access
  <1> HIDE DEF t, u
  <1>4. ASSUME NEW q \in Others(r)
        PROVE Grounded(req[q])'
    <2>1. q \in Request /\ req'[q] = req[q] /\ Sane(req[q]) /\ Grounded(req[q])
      BY <1>1, EndsOthers
    <2> QED
      BY <1>2, <2>1 DEF Grounded, OtherOwners
  <1>5. TenantsHaveOwners'
    BY <1>2 DEF TenantsHaveOwners, IInv
  <1>6. NothingOutlivesItsTeam'
    BY <1>1, <1>2, TeamsAssumption DEF NothingOutlivesItsTeam, IInv
  <1>7. \A x \in TenantId : tenants'[x] = None => \A q \in Others(r) : ~Locks(q, x) /\ ~Shares(q, x)
    BY <1>2 DEF IInv, HeldTeamsExist, Others
  <1>8. \A x \in TenantId : tenants'[x] # None => x \in drawn
    BY <1>2 DEF IInv, TenantsAreDrawn
  <1>9. Joins
    BY <1>2 DEF Joins
  <1> QED
    BY <1>1, <1>2, <1>3, <1>4, <1>5, <1>6, <1>7, <1>8, <1>9, CommitKeeps

\* An invitation expires, or nothing happens.
LEMMA IdlesKeep ==
    ASSUME IInv, UNCHANGED <<tenants, members, invitations, namespaces, access, drawn, req>>,
           expired' \subseteq TenantId \X User
    PROVE IInv' /\ Joins
  <1>1. UNCHANGED <<tenants, members, invitations, namespaces, keys, scopes, drawn, req>>
    BY DEF access
  <1>2. TypeOK'
    BY <1>1 DEF IInv, TypeOK
  <1>3. (\A q \in Request : Sane(req[q]))' /\ (\A q \in Request : Grounded(req[q]))'
    BY <1>1 DEF IInv, Grounded, OtherOwners
  <1>4. Exclusive'
    BY <1>1 DEF IInv, Exclusive, Locks, Deletes, Shares, HoldsInvitation, At
  <1>5. HeldTeamsExist' /\ TenantsAreDrawn'
    BY <1>1 DEF IInv, HeldTeamsExist, TenantsAreDrawn, Locks, Shares, At
  <1>6. TenantsHaveOwners' /\ NothingOutlivesItsTeam'
    BY <1>1 DEF IInv, TenantsHaveOwners, NothingOutlivesItsTeam
  <1> QED
    BY <1>1, <1>2, <1>3, <1>4, <1>5, <1>6 DEF IInv, Joins

----------------------------------------------------------------------------
(* The invariant. *)

LEMMA InitIInv == Init => IInv
  <1> SUFFICES ASSUME Init PROVE IInv
    OBVIOUS
  <1>1. Idle.pc = "idle" /\ Idle.op = None /\ Idle.rows = {} /\ Idle.scope = None
    BY DEF Idle
  <1>2. TypeOK
    BY IdleTyped DEF Init, TypeOK
  <1>3. \A q \in Request : Sane(req[q]) /\ Grounded(req[q])
    BY <1>1, TeamsAssumption DEF Init, Sane, Grounded, Op
  <1>4. Exclusive /\ HeldTeamsExist /\ TenantsAreDrawn
    BY <1>1 DEF Init, Exclusive, HeldTeamsExist, TenantsAreDrawn, Locks, Deletes, Shares, HoldsInvitation, At, Others
  <1>5. TenantsHaveOwners /\ NothingOutlivesItsTeam
    BY TeamsAssumption DEF Init, TenantsHaveOwners, NothingOutlivesItsTeam
  <1> QED
    BY <1>2, <1>3, <1>4, <1>5 DEF IInv

LEMMA StepIInv ==
    ASSUME IInv, [Next]_vars
    PROVE IInv' /\ Joins
  <1>1. ASSUME NEW r \in Request, Asking(r) \/ Working(r) \/ Abandon(r)
        PROVE IInv' /\ Joins
    <2>1. TypeOK /\ TenantsAreDrawn /\ Sane(req[r]) /\ Grounded(req[r])
      BY DEF IInv
    <2>2. Acts(r)
      BY <1>1, <2>1, AskingActs, WorkingActs, AbandonActs
    <2> QED
      BY <2>2, ActsKeep
  <1>2. ASSUME NEW r \in Request, Committing(r)
        PROVE IInv' /\ Joins
    BY <1>2, CommitTenantKeeps, CommitDeletionKeeps, CommitMemberKeeps, CommitInvitationKeeps,
       CommitAnswerKeeps, CommitNamespaceKeeps, CommitKeyKeeps DEF Committing
  <1>3. ASSUME NEW t \in TenantId, NEW u \in User, Expire(t, u)
        PROVE IInv' /\ Joins
    <2>1. expired' \subseteq TenantId \X User
      BY <1>3 DEF Expire, IInv, TypeOK
    <2>2. UNCHANGED <<tenants, members, invitations, namespaces, access, drawn, req>>
      BY <1>3 DEF Expire
    <2> QED
      BY <2>1, <2>2, IdlesKeep
  <1>4. CASE UNCHANGED vars
    BY <1>4, IdlesKeep DEF vars, people, IInv, TypeOK
  <1> QED
    BY <1>1, <1>2, <1>3, <1>4 DEF Next

\* What a request knows before it commits stays so under every other request:
\* the strengthening the theorems below follow from.
THEOREM TeamsInvariantHolds == Spec => []IInv
  <1>1. Init => IInv
    BY InitIInv
  <1>2. IInv /\ [Next]_vars => IInv'
    BY StepIInv
  <1> QED
    BY <1>1, <1>2, PTL DEF Spec

\* The tables and the requests have their types, and no key is without a
\* permission: an empty list is refused before the key is minted
\* (credential.go: normalizeScope).
THEOREM TeamsTypeCorrect == Spec => []TypeOK
  <1>1. IInv => TypeOK
    BY DEF IInv
  <1> QED
    BY <1>1, TeamsInvariantHolds, PTL

\* A team has an owner for as long as it exists, whatever its owners do to each
\* other at the same time: every change of a role locks the team's row before it
\* counts them (tenant.go: lockTenant).
THEOREM TeamsKeepOwners == Spec => []TenantsHaveOwners
  <1>1. IInv => TenantsHaveOwners
    BY DEF IInv
  <1> QED
    BY <1>1, TeamsInvariantHolds, PTL

\* A member, an invitation, a namespace or a key never outlives its team: what
\* is inserted refers to the team's row, and a deletion waits for it.
THEOREM NothingOutlives == Spec => []NothingOutlivesItsTeam
  <1>1. IInv => NothingOutlivesItsTeam
    BY DEF IInv
  <1> QED
    BY <1>1, TeamsInvariantHolds, PTL

\* A user joins a team by creating it, or by the invitation that stands at that
\* moment and is consumed with it (invitation.go: AcceptInvitation locks it).
THEOREM JoinsByInvitation == Spec => MembersJoinByInvitation
  <1>1. IInv /\ [Next]_vars => [Joins]_vars
    BY StepIInv
  <1> QED
    BY <1>1, TeamsInvariantHolds, PTL DEF Spec, MembersJoinByInvitation, Joins

----------------------------------------------------------------------------
(* Purges of invitations, and who waits for whom. *)

\* Only an invitation purges, and what it purges nobody else holds; then it adds
\* the invitation it replaces.
LEMMA PurgesStart ==
    ASSUME IInv, NEW r \in Request, Acting(r),
           req'[r].op = "invite", req'[r].pc \in {"purged", "recorded"}
    PROVE LET t == req'[r].tenant IN
          \/ /\ req'[r].pc = "purged" /\ req'[r].rows = Purgeable(t)
             /\ \A q \in Others(r), i \in Purgeable(t) : ~HoldsInvitation(q, t, i)
          \/ /\ At(r, "purged", "invite") /\ req'[r].pc = "recorded"
             /\ t = req[r].tenant /\ req'[r].user = req[r].user
             /\ req'[r].rows = req[r].rows \cup {req[r].user}
  <1> DEFINE Starts ==
               /\ req'[r].pc = "purged" /\ req'[r].rows = Purgeable(req'[r].tenant)
               /\ \A q \in Others(r), i \in Purgeable(req'[r].tenant) :
                     ~HoldsInvitation(q, req'[r].tenant, i)
             Continues ==
               /\ At(r, "purged", "invite") /\ req'[r].pc = "recorded"
               /\ req'[r].tenant = req[r].tenant /\ req'[r].user = req[r].user
               /\ req'[r].rows = req[r].rows \cup {req[r].user}
  <1>1. req \in [Request -> Call] /\ req[r] \in Call
    BY DEF IInv, TypeOK
  <1>0. \A c : Becomes(r, c) => req'[r] = c
    BY <1>1 DEF Becomes
  <1>2. ~Asking(r)
    <2>1. ASSUME NEW t \in TenantId, NEW c \in User, Authorize(r, t, c) PROVE FALSE
      <3> DEFINE m == members[t][c]
                 q == [Idle EXCEPT !.pc = "admitted", !.tenant = t, !.role = m,
                                   !.user = IF m = "owner" THEN None ELSE c]
      <3>1. req'[r] = q
        BY <1>0, <2>1 DEF Authorize, Reads
      <3>2. q.op = None
        BY DEF Idle
      <3> QED
        BY <3>1, <3>2, TeamsAssumption
    <2>2. ~Authenticate(r)
      BY <1>0, <1>1 DEF Authenticate, Reads, Idle
    <2>3. \A n \in Namespace : ~ResolveForMember(r, n) /\ ~ResolveForKey(r, n)
      BY <1>0, <1>1 DEF ResolveForMember, ResolveForKey, Reads, Idle
    <2> QED
      BY <2>1, <2>2, <2>3 DEF Asking
  <1>3. ~Abandon(r)
    BY <1>0, <1>1 DEF Abandon, Idle
  <1>4. ASSUME NEW u \in User, NEW role \in Role, PurgeInvitations(r, u, role) PROVE Starts
    <2>1. /\ req'[r].pc = "purged" /\ req'[r].tenant = req[r].tenant
          /\ req'[r].rows = Purgeable(req[r].tenant)
      BY <1>0, <1>1, <1>4 DEF PurgeInvitations, Reads, Calls, Call
    <2>2. \A q \in Others(r), i \in Purgeable(req[r].tenant) : ~HoldsInvitation(q, req[r].tenant, i)
      BY <1>4 DEF PurgeInvitations
    <2> QED
      BY <2>1, <2>2
  <1>5. ASSUME UpsertInvitation(r) PROVE Continues
    BY <1>0, <1>1, <1>5 DEF UpsertInvitation, Call, At
  <1>6. \A t \in TenantId, u \in User :
           /\ ~AcceptInvitation(r, t, u) /\ ~DeclineInvitation(r, t, u)
           /\ \A n \in Name : ~CreateTenant(r, t, n, u)
    <2>1. \A t \in TenantId, u \in User : ~AcceptInvitation(r, t, u)
      BY <1>0, <1>1 DEF AcceptInvitation, Reads, Idle
    <2>2. \A t \in TenantId, u \in User : ~DeclineInvitation(r, t, u)
      BY <1>0, <1>1 DEF DeclineInvitation, Idle
    <2>3. \A t \in TenantId, u \in User, n \in Name : ~CreateTenant(r, t, n, u)
      BY <1>0, <1>1 DEF CreateTenant, Idle
    <2> QED
      BY <2>1, <2>2, <2>3
  <1>7. \A u \in User : /\ \A role \in Role : ~LockTenant(r, "setRole", u, role)
                        /\ ~LockTenant(r, "remove", u, None)
                        /\ ~RevokeInvitation(r, u)
    <2>1. \A u \in User, role \in Role : ~LockTenant(r, "setRole", u, role)
      BY <1>0, <1>1 DEF LockTenant, Reads, Calls, Call
    <2>2. \A u \in User : ~LockTenant(r, "remove", u, None)
      BY <1>0, <1>1 DEF LockTenant, Reads, Calls, Call
    <2>3. \A u \in User : ~RevokeInvitation(r, u)
      BY <1>0, <1>1 DEF RevokeInvitation, Calls, Call
    <2> QED
      BY <2>1, <2>2, <2>3
  <1>8. ~SetMemberRole(r) /\ ~RemoveMember(r) /\ ~Join(r)
    BY <1>0, <1>1 DEF SetMemberRole, RemoveMember, Join, Goes, At, Call
  <1>9. ~CheckEmpty(r) /\ ~DeleteRow(r) /\ ~Cascade(r)
    BY <1>0, <1>1 DEF CheckEmpty, DeleteRow, Cascade, Goes, Reads, Calls, At, Call
  <1>10. ~DeleteNamespace(r) /\ \A n \in Namespace : ~InsertNamespace(r, n)
    BY <1>0, <1>1 DEF InsertNamespace, DeleteNamespace, Goes, At, Call, Idle
  <1>11. \A k \in Key : ~InsertKey(r, k) /\ ~DeleteKey(r, k)
    BY <1>0, <1>1 DEF InsertKey, DeleteKey, Calls, At, Call
  <1>12. \A scope \in Scopes : ~NormalizeScope(r, scope)
    BY <1>0, <1>1 DEF NormalizeScope, Calls, Reads, Call
  <1> QED
    BY <1>2, <1>3, <1>4, <1>5, <1>6, <1>7, <1>8, <1>9, <1>10, <1>11, <1>12 DEF Acting, Working

\* A request locks invitations to invite, to accept, or in its last statement.
LEMMA RowsStart ==
    ASSUME IInv, RowsHeld, NEW r \in Request, Acting(r), NEW i, i \in req'[r].rows
    PROVE req'[r].op \in {"invite", "accept"} \/ req'[r].pc = "recorded"
  <1> DEFINE Last == req'[r].pc = "recorded"
             Same == req'[r].rows = req[r].rows
             Empty == req'[r].rows = {}
  <1>1. req \in [Request -> Call] /\ req[r] \in Call
    BY DEF IInv, TypeOK
  <1>0. \A c : Becomes(r, c) => req'[r] = c
    BY <1>1 DEF Becomes
  <1>2. ASSUME Asking(r) PROVE Empty
    <2>1. ASSUME NEW t \in TenantId, NEW c \in User, Authorize(r, t, c) PROVE Empty
      BY <1>0, <1>1, <2>1 DEF Authorize, Reads, Idle
    <2>2. ASSUME Authenticate(r) PROVE Empty
      BY <1>0, <1>1, <2>2 DEF Authenticate, Reads, Idle
    <2>3. ASSUME NEW n \in Namespace, ResolveForMember(r, n) \/ ResolveForKey(r, n) PROVE Empty
      BY <1>0, <1>1, <2>3 DEF ResolveForMember, ResolveForKey, Reads, Idle
    <2> QED
      BY <1>2, <2>1, <2>2, <2>3 DEF Asking
  <1>3. ASSUME Abandon(r) PROVE Empty
    BY <1>0, <1>1, <1>3 DEF Abandon, Idle
  <1>4. ASSUME \/ \E t \in TenantId, u \in User : DeclineInvitation(r, t, u)
               \/ \E t \in TenantId, u \in User, n \in Name : CreateTenant(r, t, n, u)
               \/ \E n \in Namespace : InsertNamespace(r, n)
        PROVE Last
    <2>1. ASSUME NEW t, NEW u, DeclineInvitation(r, t, u) PROVE Last
      BY <1>0, <1>1, <2>1 DEF DeclineInvitation, Idle
    <2>2. ASSUME NEW t, NEW u, NEW n, CreateTenant(r, t, n, u) PROVE Last
      BY <1>0, <1>1, <2>2 DEF CreateTenant, Idle
    <2>3. ASSUME NEW n, InsertNamespace(r, n) PROVE Last
      BY <1>0, <1>1, <2>3 DEF InsertNamespace, Idle
    <2> HIDE DEF Last
    <2> QED
      BY <1>4, <2>1, <2>2, <2>3
  <1>5. ASSUME SetMemberRole(r) \/ RemoveMember(r) \/ Join(r) \/ Cascade(r) PROVE Last
    BY <1>0, <1>1, <1>5 DEF SetMemberRole, RemoveMember, Join, Cascade, Goes, Call
  <1>6. ASSUME UpsertInvitation(r) \/ DeleteNamespace(r) PROVE Last
    BY <1>0, <1>1, <1>6 DEF UpsertInvitation, DeleteNamespace, Goes, Call
  <1>7. ASSUME NEW k \in Key, InsertKey(r, k) \/ DeleteKey(r, k) PROVE Last
    BY <1>0, <1>1, <1>7 DEF InsertKey, DeleteKey, Calls, Call
  <1>8. ASSUME NEW u \in User, RevokeInvitation(r, u) PROVE Last
    BY <1>0, <1>1, <1>8 DEF RevokeInvitation, Calls, Call
  <1>9. ASSUME NEW t \in TenantId, NEW u \in User, AcceptInvitation(r, t, u) PROVE req'[r].op = "accept"
    BY <1>0, <1>1, <1>9 DEF AcceptInvitation, Reads, Idle
  <1>10. ASSUME NEW u \in User, NEW role \in Role, PurgeInvitations(r, u, role)
         PROVE req'[r].op = "invite"
    BY <1>0, <1>1, <1>10 DEF PurgeInvitations, Reads, Calls, Call
  <1>11. ASSUME NEW op, NEW u, NEW role, LockTenant(r, op, u, role)
         PROVE Same /\ req[r].pc = "admitted"
    <2>1. req[r].pc = "admitted"
      BY <1>11 DEF LockTenant, IsOwner, ActsOn
    <2>2. Same
      BY <1>0, <1>1, <1>11 DEF LockTenant, Reads, Calls, Call
    <2> QED
      BY <2>1, <2>2
  <1>12. ASSUME CheckEmpty(r) \/ \E scope \in Scopes : NormalizeScope(r, scope)
         PROVE Same /\ req[r].pc = "admitted"
    <2>1. ASSUME CheckEmpty(r) PROVE Same /\ req[r].pc = "admitted"
      BY <1>0, <1>1, <2>1 DEF CheckEmpty, IsOwner, Reads, Calls, Call
    <2>2. ASSUME NEW scope, NormalizeScope(r, scope) PROVE Same
      BY <1>0, <1>1, <2>2 DEF NormalizeScope, Reads, Calls, Call
    <2>3. ASSUME NEW scope, NormalizeScope(r, scope) PROVE req[r].pc = "admitted"
      BY <2>3 DEF NormalizeScope, IsOwner
    <2> QED
      BY <1>12, <2>1, <2>2, <2>3
  <1>13. ASSUME DeleteRow(r) PROVE Same /\ At(r, "delete", "deleteTenant")
    BY <1>0, <1>1, <1>13 DEF DeleteRow, Goes, Call
  <1>14. /\ req[r].pc = "admitted" => i \notin req[r].rows
         /\ At(r, "delete", "deleteTenant") => i \notin req[r].rows
    BY DEF IInv, Sane, RowsHeld, At
  <1> HIDE DEF Last, Same
  <1>15. \/ Last \/ req'[r].op \in {"invite", "accept"} \/ Empty
         \/ Same /\ (req[r].pc = "admitted" \/ At(r, "delete", "deleteTenant"))
    <2> HIDE DEF Empty
    <2> QED
      BY <1>2, <1>3, <1>4, <1>5, <1>6, <1>7, <1>8, <1>9, <1>10, <1>11, <1>12, <1>13
      DEF Acting, Working
  <1> QED
    BY <1>14, <1>15 DEF Last, Same

\* A commit leaves the expired invitations that others hold.
LEMMA HeldInvitationsStay ==
    ASSUME IInv, NEW r \in Request, Committing(r), NEW q \in Others(r),
           NEW t \in TenantId, NEW u \in Purgeable(t), HoldsInvitation(q, t, u)
    PROVE u \in Purgeable(t)'
  <1>1. ~(req[r].tenant = t /\ u \in req[r].rows)
    BY DEF IInv, Exclusive, Others, HoldsInvitation, Purgeable
  <1>2. /\ invitations \in [TenantId -> [User -> Role \cup {None}]]
        /\ Sane(req[r]) /\ Grounded(req[r])
        /\ u \in User /\ invitations[t][u] # None /\ <<t, u>> \in expired
    BY DEF IInv, TypeOK, Purgeable
  <1> SUFFICES invitations'[t][u] = invitations[t][u] /\ <<t, u>> \in expired'
    BY <1>2 DEF Purgeable
  <1>3. CASE CommitTenant(r) \/ CommitMember(r) \/ CommitNamespace(r) \/ CommitKey(r)
    BY <1>2, <1>3 DEF CommitTenant, CommitMember, CommitNamespace, CommitKey, people
  <1>4. CASE CommitDeletion(r)
    <2>1. /\ req[r].op = "deleteTenant" /\ req[r].pc = "recorded" /\ req[r].tenant \in TenantId
          /\ invitations' = [invitations EXCEPT ![req[r].tenant] = [i \in User |-> None]]
          /\ expired' = expired \ ({req[r].tenant} \X User)
      BY <1>2, <1>4 DEF CommitDeletion, Ends, Sane
    <2>2. req[r].tenant # t
      BY <1>1, <1>2, <2>1 DEF Grounded
    <2> QED
      BY <1>2, <2>1, <2>2
  <1>5. CASE CommitInvitation(r)
    <2>1. /\ req[r].op = "invite" /\ req[r].pc = "recorded" /\ req[r].tenant \in TenantId
          /\ req[r].user \in req[r].rows
          /\ invitations' = [invitations EXCEPT ![req[r].tenant] =
                               [i \in User |-> IF i = req[r].user THEN req[r].role
                                               ELSE IF i \in req[r].rows THEN None
                                               ELSE invitations[req[r].tenant][i]]]
          /\ expired' = expired \ {<<req[r].tenant, req[r].user>>}
      BY <1>2, <1>5 DEF CommitInvitation, Ends, Sane
    <2> QED
      BY <1>1, <1>2, <2>1
  <1>6. CASE CommitAnswer(r)
    <2>1. /\ req[r].op \in {"revoke", "decline", "accept"} /\ req[r].tenant \in TenantId
          /\ req[r].user \in req[r].rows
          /\ invitations' = [invitations EXCEPT ![req[r].tenant][req[r].user] = None]
          /\ expired' = expired \ {<<req[r].tenant, req[r].user>>}
      BY <1>2, <1>6 DEF CommitAnswer, Ends, Sane
    <2> QED
      BY <1>1, <1>2, <2>1
  <1> QED
    BY <1>3, <1>4, <1>5, <1>6 DEF Committing

\* What an invitation holds is held: its purged invitations stay expired.
LEMMA PurgeInvKept == ASSUME IInv, PurgeInv, [Next]_vars PROVE PurgeInv'
  <1> DEFINE Holds(q) == req[q].op = "invite" /\ req[q].pc \in {"purged", "recorded"}
             Of(q) == Purgeable(req[q].tenant)
                         \cup (IF req[q].pc = "recorded" THEN {req[q].user} ELSE {})
  <1>1. PurgesHold <=> \A q \in Request : Holds(q) => req[q].rows \subseteq Of(q)
    BY DEF PurgesHold, At
  <1>2. PurgesHold' <=> \A q \in Request : Holds(q)' => req'[q].rows \subseteq Of(q)'
    BY DEF PurgesHold, At
  <1>3. ASSUME NEW r \in Request, Acting(r) PROVE PurgeInv'
    <2>1. /\ Acts(r)
          /\ \A t : Purgeable(t)' = Purgeable(t)
      <3>1. TypeOK /\ TenantsAreDrawn /\ Sane(req[r]) /\ Grounded(req[r])
        BY DEF IInv
      <3>2. Acts(r)
        BY <1>3, <3>1, AskingActs, WorkingActs, AbandonActs DEF Acting
      <3> QED
        BY <3>2 DEF Acts, Untouched, people, Purgeable
    <2>2. \A q \in Others(r) : req'[q] = req[q] /\ q \in Request
      BY <2>1 DEF Acts, Others
    <2>3. ASSUME NEW q \in Request, Holds(q)' PROVE req'[q].rows \subseteq Of(q)'
      <3>1. CASE q = r
        <4>1. CASE req'[r].pc = "purged"
          BY <1>3, <2>1, <2>3, <3>1, <4>1, PurgesStart
        <4>2. CASE req'[r].pc = "recorded"
          BY <1>3, <2>1, <2>3, <3>1, <4>2, PurgesStart DEF PurgeInv, PurgesHold
        <4> QED
          BY <2>3, <3>1, <4>1, <4>2
      <3>2. CASE q \in Others(r)
        BY <1>1, <2>1, <2>2, <2>3, <3>2 DEF PurgeInv
      <3> QED
        BY <3>1, <3>2 DEF Others
    <2>4. ASSUME At(r, "purged", "invite")', NEW q \in Others(r), At(q, "purged", "invite"),
                 req'[r].tenant = req[q].tenant
          PROVE req'[r].rows = {} \/ req[q].rows = {}
      <3>1. /\ req'[r].rows = Purgeable(req'[r].tenant)
            /\ \A i \in req'[r].rows : ~HoldsInvitation(q, req'[r].tenant, i)
        BY <1>3, <2>4, PurgesStart DEF At
      <3>2. req[q].rows \subseteq Purgeable(req[q].tenant)
        BY <2>2, <2>4 DEF PurgeInv, PurgesHold
      <3>3. \A i \in req[q].rows : HoldsInvitation(q, req[q].tenant, i)
        BY DEF HoldsInvitation
      <3> QED
        BY <2>4, <3>1, <3>2, <3>3
    <2>5. ASSUME NEW p \in Request, NEW q \in Others(p), At(p, "purged", "invite")',
                 At(q, "purged", "invite")', req'[p].tenant = req'[q].tenant
          PROVE req'[p].rows = {} \/ req'[q].rows = {}
      <3>1. CASE p = r
        BY <2>2, <2>4, <2>5, <3>1 DEF At
      <3>2. CASE q = r
        <4>1. p \in Others(r)
          BY <2>5, <3>2 DEF Others
        <4> QED
          BY <2>2, <2>4, <2>5, <3>2, <4>1 DEF At
      <3>3. CASE p # r /\ q # r
        <4>1. req'[p] = req[p] /\ req'[q] = req[q]
          BY <2>2, <3>3 DEF Others
        <4> QED
          BY <2>5, <4>1 DEF PurgeInv, PurgesExclude, At
      <3> QED
        BY <3>1, <3>2, <3>3
    <2>6. RowsHeld'
      BY <1>3, <2>2, RowsStart DEF PurgeInv, RowsHeld, Others
    <2> QED
      BY <1>2, <2>3, <2>5, <2>6 DEF PurgeInv, PurgesExclude
  <1>4. ASSUME NEW r \in Request, Committing(r) PROVE PurgeInv'
    <2>1. Ends(r)
      BY <1>4 DEF Committing, CommitTenant, CommitDeletion, CommitMember, CommitInvitation,
         CommitAnswer, CommitNamespace, CommitKey
    <2>2. /\ req'[r].pc = "idle"
          /\ \A q \in Others(r) : req'[q] = req[q] /\ q \in Request
      BY <2>1, EndsOthers DEF Idle
    <2>3. ASSUME NEW q \in Request, Holds(q)' PROVE req'[q].rows \subseteq Of(q)'
      <3>1. q \in Others(r) /\ req'[q] = req[q]
        BY <2>2, <2>3 DEF Others
      <3>2. req[q].rows \subseteq Of(q) /\ req[q].tenant \in TenantId
        BY <1>1, <2>3, <3>1 DEF PurgeInv, IInv, Sane
      <3>3. ASSUME NEW i \in req[q].rows, i \in Purgeable(req[q].tenant)
            PROVE i \in Purgeable(req[q].tenant)'
        <4>1. PICK t \in TenantId : t = req[q].tenant
          BY <3>2
        <4>2. HoldsInvitation(q, t, i) /\ i \in Purgeable(t)
          BY <3>3, <4>1 DEF HoldsInvitation
        <4>3. i \in Purgeable(t)'
          BY <1>4, <3>1, <4>2, HeldInvitationsStay
        <4> QED
          BY <3>1, <4>1, <4>3 DEF Purgeable
      <3> QED
        BY <3>1, <3>2, <3>3 DEF Purgeable
    <2>4. PurgesExclude'
      BY <2>2 DEF PurgeInv, PurgesExclude, At, Others
    <2>5. RowsHeld'
      <3>1. req'[r].rows = {}
        BY <2>1, EndsOthers DEF Idle
      <3> QED
        BY <2>2, <3>1 DEF PurgeInv, RowsHeld, Others
    <2> QED
      BY <1>2, <2>3, <2>4, <2>5 DEF PurgeInv
  <1>5. ASSUME UNCHANGED <<invitations, req>>, expired \subseteq expired' PROVE PurgeInv'
    <2>1. \A t : Purgeable(t) \subseteq Purgeable(t)'
      BY <1>5 DEF Purgeable
    <2>2. \A q \in Request : Of(q) \subseteq Of(q)'
      BY <1>5 DEF Purgeable
    <2> HIDE DEF Of
    <2> QED
      BY <1>1, <1>2, <1>5, <2>2 DEF PurgeInv, PurgesExclude, RowsHeld, At
  <1>6. ASSUME NEW t \in TenantId, NEW u \in User, Expire(t, u) PROVE PurgeInv'
    BY <1>5, <1>6 DEF Expire
  <1>7. CASE UNCHANGED vars
    BY <1>5, <1>7 DEF vars, people
  <1> QED
    BY <1>3, <1>4, <1>6, <1>7 DEF Next, Acting

LEMMA PurgeInvariant == Spec => [](IInv /\ PurgeInv)
  <1>1. Init => PurgeInv
    BY DEF Init, PurgeInv, PurgesHold, PurgesExclude, RowsHeld, At, Idle
  <1>2. IInv /\ [Next]_vars => IInv'
    BY StepIInv
  <1> QED
    BY <1>1, <1>2, InitIInv, PurgeInvKept, PTL DEF Spec

\* Who waits is between two statements of a change.
LEMMA Waiters ==
    ASSUME NEW r \in Request, NEW q \in Request, Waits(r, q)
    PROVE \/ At(r, "purged", "invite") \/ At(r, "locked", "accept") \/ At(r, "scoped", "createKey")
          \/ At(r, "delete", "deleteTenant") \/ At(r, "cascade", "deleteTenant")
  BY DEF Waits

\* Requests that wait in a circle, and delete no team, would all purge the
\* invitations of one team; but of two purges one has found nothing.
LEMMA PurgesDoNotCircle ==
    ASSUME IInv, PurgeInv, NEW S \in SUBSET Request, S # {},
           \A r \in S : \E q \in S \ {r} : Waits(r, q)
    PROVE \E r \in S : req[r].op = "deleteTenant"
  <1> SUFFICES ASSUME \A r \in S : req[r].op # "deleteTenant" PROVE FALSE
    OBVIOUS
  <1>1. ASSUME NEW r \in S PROVE ~\E t : Locks(r, t) \/ Deletes(r, t)
    <2>1. At(r, "purged", "invite") \/ At(r, "locked", "accept") \/ At(r, "scoped", "createKey")
      BY Waiters DEF At
    <2> QED
      BY <2>1 DEF Locks, Deletes, At
  <1>2. ASSUME NEW r \in S, NEW q \in S \ {r}, Waits(r, q)
        PROVE At(r, "purged", "invite") /\ HoldsInvitation(q, req[r].tenant, req[r].user)
    BY <1>1, <1>2 DEF Waits, HoldsMember, At
  <1>3. PICK r \in S : TRUE
    OBVIOUS
  <1>4. PICK q \in S \ {r} : Waits(r, q)
    OBVIOUS
  <1>5. PICK p \in S \ {q} : Waits(q, p)
    BY <1>4
  <1>6. PICK o \in S \ {p} : Waits(p, o)
    BY <1>5
  <1>7. /\ At(q, "purged", "invite") /\ HoldsInvitation(q, req[r].tenant, req[r].user)
        /\ At(p, "purged", "invite") /\ HoldsInvitation(p, req[q].tenant, req[q].user)
    BY <1>2, <1>4, <1>5, <1>6
  <1>8. p \in Others(q) /\ q \in Request
    BY <1>4, <1>5 DEF Others
  <1> QED
    BY <1>7, <1>8 DEF PurgeInv, PurgesExclude, HoldsInvitation, Others

\* A deletion waits for one that goes on to the rows of its team, and that one
\* for an invitation that is being sent or accepted.
LEMMA DeadlocksOfDeletion == IInv /\ PurgeInv => DeadlocksExpected
  <1> SUFFICES ASSUME IInv, PurgeInv, NEW S \in SUBSET Request, S # {},
                      \A r \in S : \E q \in S \ {r} : Waits(r, q)
               PROVE \E r, q \in S :
                        req[r].op = "deleteTenant" /\ req[q].op \in {"accept", "invite"}
    BY DEF DeadlocksExpected
  <1>1. \A r \in S : \/ At(r, "purged", "invite") \/ At(r, "locked", "accept")
                     \/ At(r, "scoped", "createKey")
                     \/ At(r, "delete", "deleteTenant") \/ At(r, "cascade", "deleteTenant")
    BY Waiters
  <1>2. PICK d \in S : req[d].op = "deleteTenant"
    BY PurgesDoNotCircle
  <1>3. PICK c \in S : At(c, "cascade", "deleteTenant")
    <2>1. CASE At(d, "cascade", "deleteTenant")
      BY <2>1
    <2>2. CASE At(d, "delete", "deleteTenant")
      <3>1. PICK q \in S : Waits(d, q)
        OBVIOUS
      <3>2. Locks(q, req[d].tenant) \/ Shares(q, req[d].tenant)
        BY <2>2, <3>1 DEF Waits, At
      <3> QED
        BY <1>1, <3>2 DEF Locks, Shares, At
    <2> QED
      BY <1>1, <1>2, <2>1, <2>2 DEF At
  <1>4. PICK q \in S : Waits(c, q)
    OBVIOUS
  <1>5. req[q].pc # "recorded"
    BY <1>1 DEF At
  <1>6. ~\E k : HoldsKey(q, k) \/ HoldsName(q, k)
    BY <1>5 DEF HoldsKey, HoldsName, At
  <1>7. \E i \in User : HoldsInvitation(q, req[c].tenant, i)
    BY <1>3, <1>4, <1>6 DEF Waits, At
  <1>8. req[q].op \in {"accept", "invite"}
    BY <1>5, <1>7 DEF PurgeInv, RowsHeld, HoldsInvitation
  <1> QED
    BY <1>3, <1>8 DEF At

\* The only deadlocks are of a team's deletion, which locks the team and then
\* its invitations (tenant.go: DeleteTenant), with an invitation to it or an
\* acceptance, which lock the invitation and then refer to the team.
THEOREM DeadlocksOnlyOfDeletion == Spec => []DeadlocksExpected
  BY PurgeInvariant, DeadlocksOfDeletion, PTL

----------------------------------------------------------------------------
(* The audit log: logs of the shape they have. *)

\* What is kept of a log, for the few events there can be.
LEMMA KeptNone == ASSUME NEW es PROVE Kept(es, {}) = <<>>
  <1>1. Cardinality({}) = 0
    BY FS_EmptySet
  <1> QED
    BY <1>1 DEF Kept

LEMMA KeptOne == ASSUME NEW es, NEW i \in Nat PROVE Kept(es, {i}) = <<es[i]>>
  <1>1. Cardinality({i}) = 1 /\ {j \in {i} : j <= i} = {i}
    BY FS_Singleton
  <1>2. (CHOOSE x \in {i} : Cardinality({j \in {i} : j <= x}) = 1) = i
    BY <1>1
  <1> QED
    BY <1>1, <1>2 DEF Kept

LEMMA KeptBoth == ASSUME NEW a, NEW b PROVE Kept(<<a, b>>, {1, 2}) = <<a, b>>
  <1> DEFINE es == <<a, b>>
             Place(n) == CHOOSE i \in {1, 2} : Cardinality({j \in {1, 2} : j <= i}) = n
  <1>1. {j \in {1, 2} : j <= 1} = {1} /\ {j \in {1, 2} : j <= 2} = {1, 2}
    OBVIOUS
  <1>2. Cardinality({1}) = 1
    BY FS_Singleton
  <1>3. Cardinality({1, 2}) = 2
    <2>1. Cardinality({1} \cup {2}) = Cardinality({1}) + 1
      <3>1. IsFiniteSet({1})
        BY FS_Singleton
      <3>2. 2 \notin {1}
        OBVIOUS
      <3> QED
        BY <3>1, <3>2, FS_AddElement
    <2>2. {1} \cup {2} = {1, 2}
      OBVIOUS
    <2> QED
      BY <1>2, <2>1, <2>2
  <1>4. Place(1) = 1 /\ Place(2) = 2
    BY <1>1, <1>2, <1>3
  <1> HIDE DEF Place
  <1>5. Kept(es, {1, 2}) = [n \in 1..2 |-> es[Place(n)]]
    BY <1>3 DEF Kept, Place
  <1>6. \A n \in 1..2 : es[Place(n)] = es[n]
    BY <1>4
  <1> QED
    BY <1>5, <1>6

\* A log without an event that waits says what is committed, and neither a
\* commit nor a rollback changes it.
LEMMA CleanTold == ASSUME NEW es, NEW v, Clean(es, v) PROVE Told(es) = v
  <1>1. CASE es = <<>> /\ v = None
    <2>1. Committed(es) = {}
      BY <1>1 DEF Committed
    <2> QED
      BY <1>1, <2>1 DEF Told
  <1>2. CASE es = <<[to |-> v, by |-> None]>>
    <2>1. DOMAIN es = {1} /\ es[1] = [to |-> v, by |-> None]
      BY <1>2
    <2>2. Committed(es) = {1}
      BY <2>1 DEF Committed
    <2>3. Newest({1}) = 1
      BY DEF Newest
    <2> QED
      BY <2>1, <2>2, <2>3 DEF Told
  <1> QED
    BY <1>1, <1>2 DEF Clean

\* A log with nothing to commit stays as it is when a request ends.
LEMMA CleanLog ==
    ASSUME NEW es, NEW v, Clean(es, v), NEW r \in Request
    PROVE Settled(es, r) = es /\ Dropped(es, r) = es
  <1>1. r # None
    BY TeamsAssumption
  <1>2. CASE es = <<>> /\ v = None
    <2>1. DOMAIN es = {}
      BY <1>2
    <2>2. Settled(es, r) = es
      BY <1>2, <2>1, KeptNone DEF Settled
    <2>3. Dropped(es, r) = es
      BY <1>2, <2>1, KeptNone DEF Dropped
    <2> QED
      BY <2>2, <2>3
  <1>3. CASE es = <<[to |-> v, by |-> None]>>
    <2>1. DOMAIN es = {1} /\ es[1] = [to |-> v, by |-> None] /\ <<es[1]>> = es
      BY <1>3
    <2>2. Committed(es) = {1}
      BY <2>1 DEF Committed
    <2>3. Settled(es, r) = es
      <3> DEFINE stamped == [i \in DOMAIN es |->
                                IF es[i].by = r THEN [es[i] EXCEPT !.by = None] ELSE es[i]]
                 superseded == {i \in Committed(stamped) : \E j \in Committed(stamped) : i < j}
      <3>1. stamped = es
        BY <1>1, <1>3, <2>1
      <3>2. superseded = {}
        BY <2>2, <3>1
      <3>3. Settled(es, r) = Kept(stamped, DOMAIN es \ superseded)
        BY DEF Settled
      <3>4. DOMAIN es \ superseded = {1}
        BY <2>1, <3>2
      <3> HIDE DEF stamped, superseded
      <3> QED
        BY <2>1, <3>1, <3>3, <3>4, KeptOne
    <2>4. Dropped(es, r) = es
      <3>1. {i \in DOMAIN es : es[i].by # r} = {1}
        BY <1>1, <2>1
      <3> QED
        BY <2>1, <3>1, KeptOne DEF Dropped
    <2> QED
      BY <2>3, <2>4
  <1> QED
    BY <1>2, <1>3 DEF Clean

\* A log with one event that waits says what is committed before it; only the
\* request that recorded the event commits it, and then nothing else is kept, or
\* takes it back.
LEMMA PendingLog ==
    ASSUME NEW es, NEW v, NEW w, NEW q \in Request, Pending(es, v, [to |-> w, by |-> q])
    PROVE /\ Told(es) = v
          /\ \A r \in Request : r # q => Settled(es, r) = es /\ Dropped(es, r) = es
          /\ Clean(Settled(es, q), w)
          /\ Clean(Dropped(es, q), v)
  <1> DEFINE e == [to |-> w, by |-> q]
             stamped(r) == [i \in DOMAIN es |-> IF es[i].by = r THEN [es[i] EXCEPT !.by = None] ELSE es[i]]
             superseded(r) == {i \in Committed(stamped(r)) : \E j \in Committed(stamped(r)) : i < j}
  <1>1. q # None
    BY TeamsAssumption
  <1>2. /\ [e EXCEPT !.by = None] = [to |-> w, by |-> None]
        /\ e.by = q
    OBVIOUS
  <1>3. \A r : Settled(es, r) = Kept(stamped(r), DOMAIN es \ superseded(r))
    BY DEF Settled
  <1> HIDE DEF e
  <1>4. CASE es = <<e>> /\ v = None
    <2>1. DOMAIN es = {1} /\ es[1] = e /\ <<es[1]>> = es
      BY <1>4
    <2>2. Committed(es) = {}
      BY <1>1, <1>2, <2>1 DEF Committed
    <2>3. Told(es) = v
      BY <1>4, <2>2 DEF Told
    <2>4. ASSUME NEW r \in Request, r # q PROVE Settled(es, r) = es /\ Dropped(es, r) = es
      <3>1. stamped(r) = es
        <4>1. \A i \in DOMAIN es : es[i].by # r
          BY <1>2, <2>1, <2>4
        <4>2. stamped(r) = [i \in DOMAIN es |-> es[i]]
          BY <4>1
        <4> HIDE DEF stamped
        <4> QED
          BY <1>4, <4>2
      <3>2. superseded(r) = {}
        BY <2>2, <3>1
      <3>3. {i \in DOMAIN es : es[i].by # r} = {1}
        BY <1>2, <2>1, <2>4
      <3> HIDE DEF stamped, superseded
      <3>4. Settled(es, r) = es
        BY <1>3, <2>1, <3>1, <3>2, KeptOne
      <3>5. Dropped(es, r) = es
        BY <2>1, <3>3, KeptOne DEF Dropped
      <3> QED
        BY <3>4, <3>5
    <2>5. Clean(Settled(es, q), w)
      <3>1. stamped(q)[1] = [to |-> w, by |-> None] /\ DOMAIN stamped(q) = {1}
        BY <1>2, <2>1
      <3>2. superseded(q) = {}
        <4>1. Committed(stamped(q)) \subseteq {1}
          BY <3>1 DEF Committed
        <4> HIDE DEF stamped
        <4>2. \A i, j \in Committed(stamped(q)) : ~(i < j)
          BY <4>1
        <4> QED
          BY <4>2
      <3> HIDE DEF stamped, superseded
      <3>3. Kept(stamped(q), {1}) = <<[to |-> w, by |-> None]>>
        BY <3>1, KeptOne
      <3>4. DOMAIN es \ superseded(q) = {1}
        BY <2>1, <3>2
      <3> QED
        BY <1>3, <3>3, <3>4 DEF Clean
    <2>6. Clean(Dropped(es, q), v)
      <3>1. {i \in DOMAIN es : es[i].by # q} = {}
        BY <1>2, <2>1
      <3> QED
        BY <1>4, <3>1, KeptNone DEF Dropped, Clean
    <2> QED
      BY <2>3, <2>4, <2>5, <2>6
  <1>5. CASE es = <<[to |-> v, by |-> None], e>>
    <2>1. /\ DOMAIN es = {1, 2}
          /\ es[1] = [to |-> v, by |-> None] /\ es[1].by = None /\ es[1].to = v
          /\ es[2] = e
          /\ <<es[1], es[2]>> = es
      BY <1>5
    <2>2. Committed(es) = {1}
      BY <1>1, <1>2, <2>1 DEF Committed
    <2>3. Told(es) = v
      <3>1. Newest({1}) = 1
        BY DEF Newest
      <3> QED
        BY <2>1, <2>2, <3>1 DEF Told
    <2>4. ASSUME NEW r \in Request, r # q PROVE Settled(es, r) = es /\ Dropped(es, r) = es
      <3>1. stamped(r) = es
        <4>1. r # None
          BY TeamsAssumption
        <4>2. \A i \in DOMAIN es : es[i].by # r
          BY <1>2, <2>1, <2>4, <4>1
        <4>3. stamped(r) = [i \in DOMAIN es |-> es[i]]
          BY <4>2
        <4> HIDE DEF stamped
        <4> QED
          BY <1>5, <4>3
      <3>2. superseded(r) = {}
        BY <2>2, <3>1
      <3>3. {i \in DOMAIN es : es[i].by # r} = {1, 2}
        BY <1>2, <2>1, <2>4, TeamsAssumption
      <3>4. Kept(es, {1, 2}) = es
        BY <1>5, KeptBoth
      <3> HIDE DEF stamped, superseded
      <3>5. Settled(es, r) = es
        BY <1>3, <2>1, <3>1, <3>2, <3>4
      <3>6. Dropped(es, r) = es
        BY <3>3, <3>4 DEF Dropped
      <3> QED
        BY <3>5, <3>6
    <2>5. Clean(Settled(es, q), w)
      <3>1. /\ stamped(q)[1] = es[1]
            /\ stamped(q)[2] = [to |-> w, by |-> None]
            /\ DOMAIN stamped(q) = {1, 2}
        BY <1>1, <1>2, <2>1
      <3>2. superseded(q) = {1}
        <4>1. Committed(stamped(q)) = {1, 2}
          <5> HIDE DEF stamped
          <5> QED
            BY <2>1, <3>1 DEF Committed
        <4> HIDE DEF stamped
        <4> QED
          BY <4>1
      <3> HIDE DEF stamped, superseded
      <3>3. Kept(stamped(q), {2}) = <<[to |-> w, by |-> None]>>
        BY <3>1, KeptOne
      <3>4. DOMAIN es \ superseded(q) = {2}
        BY <2>1, <3>2
      <3> QED
        BY <1>3, <3>3, <3>4 DEF Clean
    <2>6. Clean(Dropped(es, q), v)
      <3>1. {i \in DOMAIN es : es[i].by # q} = {1}
        BY <1>1, <1>2, <2>1
      <3> QED
        BY <2>1, <3>1, KeptOne DEF Dropped, Clean
    <2> QED
      BY <2>3, <2>4, <2>5, <2>6
  <1> QED
    BY <1>4, <1>5 DEF Pending, e

\* A log that is clean takes an event.
LEMMA LogAppended ==
    ASSUME NEW es, NEW v, Clean(es, v), NEW event
    PROVE Pending(Append(es, event), v, event)
  <1>1. CASE es = <<>> /\ v = None
    <2>1. Append(<<>>, event) = <<event>>
      OBVIOUS
    <2> QED
      BY <1>1, <2>1 DEF Pending
  <1>2. CASE es = <<[to |-> v, by |-> None]>>
    <2> DEFINE d == [to |-> v, by |-> None]
    <2> HIDE DEF d
    <2>1. Append(<<d>>, event) = <<d, event>>
      <3> DEFINE T == {d, event}
      <3>1. d \in T /\ event \in T
        OBVIOUS
      <3> HIDE DEF T
      <3>2. <<d>> \in Seq(T) /\ <<d, event>> \in Seq(T)
        BY <3>1
      <3>3. /\ Append(<<d>>, event) \in Seq(T) /\ Len(Append(<<d>>, event)) = 2
            /\ Append(<<d>>, event)[1] = d /\ Append(<<d>>, event)[2] = event
        BY <3>1, <3>2
      <3>4. \A es1 \in Seq(T), es2 \in Seq(T) :
               Len(es1) = 2 /\ Len(es2) = 2 /\ es1[1] = es2[1] /\ es1[2] = es2[2] => es1 = es2
        OBVIOUS
      <3> QED
        BY <3>2, <3>3, <3>4
    <2> QED
      BY <1>2, <2>1 DEF Pending, d
  <1> QED
    BY <1>1, <1>2 DEF Clean

----------------------------------------------------------------------------
(* What a request records as it takes its last place. *)

\* A step that appends to the log of each subject what its request says of it.
Recorded(r) ==
    /\ req[r].pc # "recorded" /\ req'[r].pc = "recorded"
    /\ audit' = [s \in Subject |->
                    IF s \in Subjects(r)' THEN Append(audit[s], Event(r, s)') ELSE audit[s]]

LEMMA RecordSays ==
    ASSUME NEW r \in Request, NEW changes, Record(r, changes),
           req[r].pc # "recorded", req'[r].pc = "recorded",
           \A s \in Subject : s \in DOMAIN changes <=> s \in Subjects(r)',
           \A s \in Subject : s \in DOMAIN changes => changes[s] = Says(r, s)'
    PROVE Recorded(r)
  BY DEF Record, Recorded, Event

LEMMA RecordOne ==
    ASSUME NEW r \in Request, NEW subject, NEW value, Record(r, Became(subject, value)),
           req[r].pc # "recorded", req'[r].pc = "recorded",
           \A s \in Subject : s = subject <=> s \in Subjects(r)',
           subject \in Subject => value = Says(r, subject)'
    PROVE Recorded(r)
  <1> DEFINE changes == Became(subject, value)
  <1>1. DOMAIN changes = {subject} /\ changes[subject] = value
    BY DEF Became
  <1> HIDE DEF changes
  <1>2. Record(r, changes)
    BY DEF changes
  <1> QED
    BY <1>1, <1>2, RecordSays

\* What each statement that inserts an event (RecordAudit) does to the logs.
LEMMA MemberRecorded ==
    ASSUME IInv, NEW r \in Request, SetMemberRole(r) \/ RemoveMember(r)
    PROVE Recorded(r)
  <1> DEFINE t == req[r].tenant  u == req[r].user
  <1>1. req \in [Request -> Call] /\ req[r] \in Call /\ Sane(req[r])
    BY DEF IInv, TypeOK
  <1>2. ASSUME SetMemberRole(r) PROVE Recorded(r)
    <2>1. req'[r] = [req[r] EXCEPT !.pc = "recorded"]
      BY <1>1, <1>2 DEF SetMemberRole, Goes, Becomes
    <2>2. /\ req'[r].pc = "recorded" /\ req'[r].op = "setRole" /\ req[r].pc # "recorded"
          /\ req'[r].tenant = t /\ req'[r].user = u /\ req'[r].role = req[r].role
      BY <1>1, <1>2, <2>1 DEF SetMemberRole, At, Call
    <2>3. \A s \in Subject : s = <<t, "member", u>> <=> s \in Subjects(r)'
      BY <2>2 DEF Subjects
    <2>4. \A s : Says(r, s)' = req[r].role
      BY <2>2 DEF Says
    <2>5. Record(r, Became(<<t, "member", u>>, req[r].role))
      BY <1>2 DEF SetMemberRole
    <2> QED
      BY <2>2, <2>3, <2>4, <2>5, RecordOne
  <1>3. ASSUME RemoveMember(r) PROVE Recorded(r)
    <2>1. req'[r] = [req[r] EXCEPT !.pc = "recorded"]
      BY <1>1, <1>3 DEF RemoveMember, Goes, Becomes
    <2>2. /\ req'[r].pc = "recorded" /\ req'[r].op = "remove" /\ req[r].pc # "recorded"
          /\ req'[r].tenant = t /\ req'[r].user = u
      BY <1>1, <1>3, <2>1 DEF RemoveMember, At, Call
    <2>3. \A s \in Subject : s = <<t, "member", u>> <=> s \in Subjects(r)'
      BY <2>2 DEF Subjects
    <2>4. \A s : Says(r, s)' = None
      BY <2>2 DEF Says
    <2>5. Record(r, Became(<<t, "member", u>>, None))
      BY <1>3 DEF RemoveMember
    <2> QED
      BY <2>2, <2>3, <2>4, <2>5, RecordOne
  <1> QED
    BY <1>2, <1>3

LEMMA TenantRecorded ==
    ASSUME IInv, NEW r \in Request,
           \/ \E t \in TenantId, n \in Name, u \in User : CreateTenant(r, t, n, u)
           \/ Cascade(r)
    PROVE Recorded(r)
  <1>1. req \in [Request -> Call] /\ req[r] \in Call
    BY DEF IInv, TypeOK
  <1>2. ASSUME NEW t \in TenantId, NEW n \in Name, NEW u \in User, CreateTenant(r, t, n, u)
        PROVE Recorded(r)
    <2> DEFINE changes == [s \in {<<t, "tenant", None>>, <<t, "member", u>>} |->
                              IF s[2] = "tenant" THEN n ELSE "owner"]
    <2>1. /\ req'[r].pc = "recorded" /\ req'[r].op = "createTenant" /\ req[r].pc # "recorded"
          /\ req'[r].tenant = t /\ req'[r].user = u /\ req'[r].name = n
      BY <1>1, <1>2 DEF CreateTenant, Becomes, Idle
    <2>2. DOMAIN changes = {<<t, "tenant", None>>, <<t, "member", u>>}
      OBVIOUS
    <2>3. \A s \in DOMAIN changes : changes[s] = IF s[2] = "tenant" THEN n ELSE "owner"
      OBVIOUS
    <2>4. \A s : Says(r, s)' = IF s[2] = "tenant" THEN n ELSE "owner"
      BY <2>1 DEF Says
    <2>5. Record(r, changes)
      BY <1>2 DEF CreateTenant
    <2> HIDE DEF changes
    <2>6. \A s \in Subject : s \in DOMAIN changes <=> s \in Subjects(r)'
      BY <2>1, <2>2 DEF Subjects
    <2> QED
      BY <2>1, <2>3, <2>4, <2>5, <2>6, RecordSays
  <1>3. ASSUME Cascade(r) PROVE Recorded(r)
    <2> DEFINE t == req[r].tenant
    <2>1. /\ req'[r].pc = "recorded" /\ req'[r].op = "deleteTenant" /\ req[r].pc # "recorded"
          /\ req'[r].tenant = t
      BY <1>1, <1>3 DEF Cascade, Becomes, At, Call
    <2>2. \A s \in Subject : s = <<t, "tenant", None>> <=> s \in Subjects(r)'
      BY <2>1 DEF Subjects
    <2>3. \A s : Says(r, s)' = None
      BY <2>1 DEF Says
    <2>4. Record(r, Became(<<t, "tenant", None>>, None))
      BY <1>3 DEF Cascade
    <2> QED
      BY <2>1, <2>2, <2>3, <2>4, RecordOne
  <1> QED
    BY <1>2, <1>3

LEMMA InvitationRecorded ==
    ASSUME IInv, NEW r \in Request,
           \/ UpsertInvitation(r)
           \/ \E u \in User : RevokeInvitation(r, u)
           \/ \E t \in TenantId, u \in User : DeclineInvitation(r, t, u)
    PROVE Recorded(r)
  <1>1. req \in [Request -> Call] /\ req[r] \in Call
    BY DEF IInv, TypeOK
  <1>2. ASSUME UpsertInvitation(r) PROVE Recorded(r)
    <2> DEFINE t == req[r].tenant  u == req[r].user
    <2>1. /\ req'[r].pc = "recorded" /\ req'[r].op = "invite" /\ req[r].pc # "recorded"
          /\ req'[r].tenant = t /\ req'[r].user = u /\ req'[r].role = req[r].role
      BY <1>1, <1>2 DEF UpsertInvitation, Becomes, At, Call
    <2>2. \A s \in Subject : s = <<t, "invitation", u>> <=> s \in Subjects(r)'
      BY <2>1 DEF Subjects
    <2>3. \A s : Says(r, s)' = req[r].role
      BY <2>1 DEF Says
    <2>4. Record(r, Became(<<t, "invitation", u>>, req[r].role))
      BY <1>2 DEF UpsertInvitation
    <2> QED
      BY <2>1, <2>2, <2>3, <2>4, RecordOne
  <1>3. ASSUME NEW u \in User, RevokeInvitation(r, u) PROVE Recorded(r)
    <2> DEFINE t == req[r].tenant
    <2>1. /\ req'[r].pc = "recorded" /\ req'[r].op = "revoke" /\ req[r].pc # "recorded"
          /\ req'[r].tenant = t /\ req'[r].user = u
      BY <1>1, <1>3 DEF RevokeInvitation, IsOwner, Calls, Becomes, Call
    <2>2. \A s \in Subject : s = <<t, "invitation", u>> <=> s \in Subjects(r)'
      BY <2>1 DEF Subjects
    <2>3. \A s : Says(r, s)' = None
      BY <2>1 DEF Says
    <2>4. Record(r, Became(<<t, "invitation", u>>, None))
      BY <1>3 DEF RevokeInvitation
    <2> QED
      BY <2>1, <2>2, <2>3, <2>4, RecordOne
  <1>4. ASSUME NEW t \in TenantId, NEW u \in User, DeclineInvitation(r, t, u) PROVE Recorded(r)
    <2>1. /\ req'[r].pc = "recorded" /\ req'[r].op = "decline" /\ req[r].pc # "recorded"
          /\ req'[r].tenant = t /\ req'[r].user = u
      BY <1>1, <1>4 DEF DeclineInvitation, Becomes, Idle
    <2>2. \A s \in Subject : s = <<t, "invitation", u>> <=> s \in Subjects(r)'
      BY <2>1 DEF Subjects
    <2>3. \A s : Says(r, s)' = None
      BY <2>1 DEF Says
    <2>4. Record(r, Became(<<t, "invitation", u>>, None))
      BY <1>4 DEF DeclineInvitation
    <2> QED
      BY <2>1, <2>2, <2>3, <2>4, RecordOne
  <1> QED
    BY <1>2, <1>3, <1>4

LEMMA JoinRecorded ==
    ASSUME IInv, OffersHeld, NEW r \in Request, Join(r)
    PROVE Recorded(r)
  <1> DEFINE t == req[r].tenant  u == req[r].user  joins == members[t][u] = None
             told == {<<t, "invitation", u>>} \cup (IF joins THEN {<<t, "member", u>>} ELSE {})
             changes == [s \in told |-> IF s[2] = "invitation" THEN None ELSE req[r].role]
  <1>1. req \in [Request -> Call] /\ req[r] \in Call /\ Sane(req[r]) /\ Grounded(req[r])
    BY DEF IInv, TypeOK
  <1>2. /\ req'[r].pc = "recorded" /\ req'[r].op = "accept" /\ req[r].pc # "recorded"
        /\ req[r].op = "accept"
        /\ req'[r].tenant = t /\ req'[r].user = u
        /\ req'[r].role = IF joins THEN req[r].role ELSE None
    BY <1>1 DEF Join, Becomes, At, Call
  <1>3. Record(r, changes)
    BY DEF Join
  <1>4. DOMAIN changes = told /\ \A s \in told : changes[s] = IF s[2] = "invitation" THEN None ELSE req[r].role
    OBVIOUS
  <1> HIDE DEF changes
  <1>5. CASE joins /\ req[r].role # None
    <2>1. \A s \in Subject : s \in told <=> s \in Subjects(r)'
      BY <1>2, <1>5 DEF Subjects
    <2>2. \A s \in told : (IF s[2] = "invitation" THEN None ELSE req[r].role) = Says(r, s)'
      BY <1>2, <1>5 DEF Says
    <2> QED
      BY <1>2, <1>3, <1>4, <2>1, <2>2, RecordSays
  <1>6. CASE ~joins
    <2>1. \A s \in Subject : s \in told <=> s \in Subjects(r)'
      BY <1>2, <1>6 DEF Subjects
    <2>2. \A s \in told : s[2] = "invitation" /\ Says(r, s)' = None
      BY <1>2, <1>6 DEF Says
    <2> QED
      BY <1>2, <1>3, <1>4, <2>1, <2>2, RecordSays
  <1>7. req[r].role # None
    BY DEF OffersHeld, Join
  <1> QED
    BY <1>5, <1>6, <1>7

LEMMA NamespaceRecorded ==
    ASSUME IInv, NEW r \in Request,
           DeleteNamespace(r) \/ \E n \in Namespace : InsertNamespace(r, n)
    PROVE Recorded(r)
  <1>1. req \in [Request -> Call] /\ req[r] \in Call
    BY DEF IInv, TypeOK
  <1>2. ASSUME NEW n \in Namespace, InsertNamespace(r, n) PROVE Recorded(r)
    <2> DEFINE t == req[r].tenant
    <2>1. /\ req'[r].pc = "recorded" /\ req'[r].op = "createNamespace" /\ req[r].pc # "recorded"
          /\ req'[r].tenant = t /\ req'[r].name = n
      BY <1>1, <1>2 DEF InsertNamespace, Permits, Becomes, Idle
    <2>2. \A s \in Subject : s = <<t, "namespace", n>> <=> s \in Subjects(r)'
      BY <2>1 DEF Subjects
    <2>3. \A s : Says(r, s)' = t
      BY <2>1 DEF Says
    <2>4. Record(r, Became(<<t, "namespace", n>>, t))
      BY <1>2 DEF InsertNamespace
    <2> QED
      BY <2>1, <2>2, <2>3, <2>4, RecordOne
  <1>3. ASSUME DeleteNamespace(r) PROVE Recorded(r)
    <2> DEFINE t == namespaces[req[r].name]  n == req[r].name
    <2>1. /\ req'[r].pc = "recorded" /\ req'[r].op = "deleteNamespace" /\ req[r].pc # "recorded"
          /\ req'[r].name = n
      BY <1>1, <1>3 DEF DeleteNamespace, Goes, Becomes, At, Call
    <2>2. \A s \in Subject : s = <<t, "namespace", n>> <=> s \in Subjects(r)'
      BY <1>3, <2>1 DEF Subjects, DeleteNamespace
    <2>3. \A s : Says(r, s)' = None
      BY <2>1 DEF Says
    <2>4. Record(r, Became(<<t, "namespace", n>>, None))
      BY <1>3 DEF DeleteNamespace
    <2> QED
      BY <2>1, <2>2, <2>3, <2>4, RecordOne
  <1> QED
    BY <1>2, <1>3

LEMMA KeyRecorded ==
    ASSUME IInv, NEW r \in Request, \E k \in Key : InsertKey(r, k) \/ DeleteKey(r, k)
    PROVE Recorded(r)
  <1>1. req \in [Request -> Call] /\ req[r] \in Call
    BY DEF IInv, TypeOK
  <1> DEFINE t == req[r].tenant
  <1>2. ASSUME NEW k \in Key, InsertKey(r, k) PROVE Recorded(r)
    <2>1. /\ req'[r].pc = "recorded" /\ req'[r].op = "createKey" /\ req[r].pc # "recorded"
          /\ req'[r].tenant = t /\ req'[r].key = k
      BY <1>1, <1>2 DEF InsertKey, Becomes, At, Call
    <2>2. \A s \in Subject : s = <<t, "key", k>> <=> s \in Subjects(r)'
      BY <2>1 DEF Subjects
    <2>3. \A s : Says(r, s)' = k
      BY <2>1 DEF Says
    <2>4. Record(r, Became(<<t, "key", k>>, k))
      BY <1>2 DEF InsertKey
    <2> QED
      BY <2>1, <2>2, <2>3, <2>4, RecordOne
  <1>3. ASSUME NEW k \in Key, DeleteKey(r, k) PROVE Recorded(r)
    <2>1. /\ req'[r].pc = "recorded" /\ req'[r].op = "deleteKey" /\ req[r].pc # "recorded"
          /\ req'[r].tenant = t /\ req'[r].key = k
      BY <1>1, <1>3 DEF DeleteKey, IsOwner, Calls, Becomes, Call
    <2>2. \A s \in Subject : s = <<t, "key", k>> <=> s \in Subjects(r)'
      BY <2>1 DEF Subjects
    <2>3. \A s : Says(r, s)' = None
      BY <2>1 DEF Says
    <2>4. Record(r, Became(<<t, "key", k>>, None))
      BY <1>3 DEF DeleteKey
    <2> QED
      BY <2>1, <2>2, <2>3, <2>4, RecordOne
  <1> QED
    BY <1>2, <1>3

\* Nothing is recorded before the last place.
Quiet(r) ==
    /\ audit' = audit
    /\ drawn' = drawn
    /\ req[r].pc # "recorded" /\ req'[r].pc # "recorded"
    /\ At(r, "locked", "accept")' => req'[r].role # None

LEMMA AskingIsQuiet == ASSUME IInv, NEW r \in Request, Asking(r) PROVE Quiet(r)
  <1>1. req \in [Request -> Call]
    BY DEF IInv, TypeOK
  <1>2. ASSUME NEW t \in TenantId, NEW c \in User, Authorize(r, t, c) PROVE Quiet(r)
    BY <1>1, <1>2 DEF Authorize, Quiet, Reads, Becomes, Idle, At
  <1>3. ASSUME Authenticate(r) PROVE Quiet(r)
    BY <1>1, <1>3 DEF Authenticate, Quiet, Reads, Becomes, Idle, At
  <1>4. ASSUME NEW n \in Namespace, ResolveForMember(r, n) PROVE Quiet(r)
    BY <1>1, <1>4 DEF ResolveForMember, Quiet, Reads, Becomes, Idle, At
  <1>5. ASSUME NEW n \in Namespace, ResolveForKey(r, n) PROVE Quiet(r)
    BY <1>1, <1>5 DEF ResolveForKey, Permits, Quiet, Reads, Becomes, Idle, At
  <1> QED
    BY <1>2, <1>3, <1>4, <1>5 DEF Asking

\* A request that takes a step other than its last records all it will say.
LEMMA ActingRecords ==
    ASSUME IInv, OffersHeld, NEW r \in Request, Acting(r)
    PROVE Quiet(r) \/ Recorded(r) \/ Abandon(r)
  <1>1. req \in [Request -> Call] /\ req[r] \in Call
    BY DEF IInv, TypeOK
  <1>2. ASSUME NEW t \in TenantId, NEW u \in User, AcceptInvitation(r, t, u) PROVE Quiet(r)
    BY <1>1, <1>2 DEF AcceptInvitation, Invited, Quiet, Reads, Becomes, Idle, At
  <1>3. ASSUME NEW op \in {"setRole", "remove"}, NEW u, NEW role, LockTenant(r, op, u, role)
        PROVE Quiet(r)
    <2>1. req[r].pc = "admitted"
      BY <1>3 DEF LockTenant, IsOwner, ActsOn
    <2>2. req'[r].pc = "locked" /\ req'[r].op = op
      BY <1>1, <1>3 DEF LockTenant, Reads, Becomes, Calls, Call
    <2> QED
      BY <1>3, <2>1, <2>2 DEF LockTenant, Quiet, Reads, At
  <1>4. ASSUME NEW u \in User, NEW role \in Role, PurgeInvitations(r, u, role) PROVE Quiet(r)
    <2>1. req[r].pc = "admitted"
      BY <1>4 DEF PurgeInvitations, IsOwner
    <2>2. req'[r].pc = "purged"
      BY <1>1, <1>4 DEF PurgeInvitations, Reads, Becomes, Calls, Call
    <2> QED
      BY <1>4, <2>1, <2>2 DEF PurgeInvitations, Quiet, Reads, At
  <1>5. ASSUME CheckEmpty(r) PROVE Quiet(r)
    <2>1. req[r].pc = "admitted" /\ req'[r].pc = "delete"
      BY <1>1, <1>5 DEF CheckEmpty, IsOwner, Reads, Becomes, Calls, Call
    <2> QED
      BY <1>5, <2>1 DEF CheckEmpty, Quiet, Reads, At
  <1>6. ASSUME DeleteRow(r) PROVE Quiet(r)
    <2>1. req[r].pc = "delete" /\ req'[r].pc = "cascade"
      BY <1>1, <1>6 DEF DeleteRow, At, Goes, Becomes, Call
    <2> QED
      BY <1>6, <2>1 DEF DeleteRow, Quiet, At
  <1>7. ASSUME NEW scope \in Scopes, NormalizeScope(r, scope) PROVE Quiet(r)
    <2>1. req[r].pc = "admitted" /\ req'[r].pc = "scoped"
      BY <1>1, <1>7 DEF NormalizeScope, IsOwner, Reads, Becomes, Calls, Call
    <2> QED
      BY <1>7, <2>1 DEF NormalizeScope, Quiet, Reads, At
  <1> QED
    BY <1>2, <1>3, <1>4, <1>5, <1>6, <1>7, AskingIsQuiet, MemberRecorded, TenantRecorded,
       InvitationRecorded, JoinRecorded, NamespaceRecorded, KeyRecorded
    DEF Acting, Working

\* What a request that takes its last place has just found.
Starts(r) ==
    LET q == req'[r] IN
    /\ q.op \in {"createNamespace", "deleteNamespace"} =>
          \A p \in Others(r) : ~HoldsName(p, q.name)
    /\ q.op = "createNamespace" => namespaces[q.name] = None
    /\ q.op = "deleteNamespace" => namespaces[q.name] # None
    /\ q.op = "createKey" => q.key \in Key /\ q.key \notin drawn /\ q.key \in drawn'
    /\ q.op = "deleteKey" => keys[q.key] = q.tenant /\ \A p \in Others(r) : ~HoldsKey(p, q.key)
    /\ q.op = "deleteTenant" =>
          \A k \in Key : keys[k] = q.tenant => \A p \in Others(r) : ~HoldsKey(p, k)
    /\ q.op \in {"revoke", "decline"} => invitations[q.tenant][q.user] # None

\* Whoever takes its last place has found that nobody else holds the subject.
LEMMA LastPlaceStarts ==
    ASSUME IInv, NEW r \in Request, Working(r), req'[r].pc = "recorded"
    PROVE Starts(r)
  <1> DEFINE op == req'[r].op
  <1>1. req \in [Request -> Call] /\ req[r] \in Call
    BY DEF IInv, TypeOK
  <1>2. \A t \in TenantId, u \in User : AcceptInvitation(r, t, u) => op = "accept"
    BY <1>1 DEF AcceptInvitation, Reads, Becomes, Idle
  <1>3. ASSUME NEW t \in TenantId, NEW u \in User, DeclineInvitation(r, t, u) PROVE Starts(r)
    <2>1. op = "decline" /\ req'[r].tenant = t /\ req'[r].user = u
      BY <1>1, <1>3 DEF DeclineInvitation, Becomes, Idle
    <2> QED
      BY <1>3, <2>1 DEF Starts, DeclineInvitation, Invited
  <1>4. ASSUME NEW t, NEW u, NEW n, CreateTenant(r, t, n, u) PROVE op = "createTenant"
    BY <1>1, <1>4 DEF CreateTenant, Becomes, Idle
  <1>5. ASSUME NEW p, NEW u, NEW role, LockTenant(r, p, u, role) PROVE FALSE
    BY <1>1, <1>5 DEF LockTenant, Reads, Becomes, Calls, Call
  <1>6. ASSUME NEW u, NEW role, PurgeInvitations(r, u, role) PROVE FALSE
    BY <1>1, <1>6 DEF PurgeInvitations, Reads, Becomes, Calls, Call
  <1>7. ASSUME NEW u \in User, RevokeInvitation(r, u) PROVE Starts(r)
    <2>1. op = "revoke" /\ req'[r].tenant = req[r].tenant /\ req'[r].user = u
      BY <1>1, <1>7 DEF RevokeInvitation, Calls, Becomes, Call
    <2> QED
      BY <1>7, <2>1 DEF Starts, RevokeInvitation
  <1>8. ASSUME SetMemberRole(r) \/ RemoveMember(r) PROVE op \in {"setRole", "remove"}
    BY <1>1, <1>8 DEF SetMemberRole, RemoveMember, Goes, Becomes, At, Call
  <1>9. ASSUME UpsertInvitation(r) PROVE op = "invite"
    BY <1>1, <1>9 DEF UpsertInvitation, Becomes, At, Call
  <1>10. ASSUME Join(r) PROVE op = "accept"
    BY <1>1, <1>10 DEF Join, Becomes, At, Call
  <1>11. ASSUME CheckEmpty(r) PROVE FALSE
    BY <1>1, <1>11 DEF CheckEmpty, Reads, Becomes, Calls, Call
  <1>12. ASSUME DeleteRow(r) PROVE FALSE
    BY <1>1, <1>12 DEF DeleteRow, Goes, Becomes, Call
  <1>13. ASSUME Cascade(r) PROVE Starts(r)
    <2>1. op = "deleteTenant" /\ req'[r].tenant = req[r].tenant
      BY <1>1, <1>13 DEF Cascade, Becomes, At, Call
    <2>2. At(r, "cascade", "deleteTenant") /\ \A p \in Others(r) : ~Waits(r, p)
      BY <1>13 DEF Cascade, Free
    <2>3. \A k \in Key : keys[k] = req[r].tenant => \A p \in Others(r) : ~HoldsKey(p, k)
      BY <2>2 DEF Waits
    <2> QED
      BY <2>1, <2>3 DEF Starts
  <1>14. ASSUME NEW n \in Namespace, InsertNamespace(r, n) PROVE Starts(r)
    <2>1. op = "createNamespace" /\ req'[r].name = n
      BY <1>1, <1>14 DEF InsertNamespace, Becomes, Idle
    <2> QED
      BY <1>14, <2>1 DEF Starts, InsertNamespace
  <1>15. ASSUME DeleteNamespace(r) PROVE Starts(r)
    <2>1. op = "deleteNamespace" /\ req'[r].name = req[r].name
      BY <1>1, <1>15 DEF DeleteNamespace, Goes, Becomes, At, Call
    <2> QED
      BY <1>15, <2>1 DEF Starts, DeleteNamespace
  <1>16. ASSUME NEW scope, NormalizeScope(r, scope) PROVE FALSE
    BY <1>1, <1>16 DEF NormalizeScope, Reads, Becomes, Calls, Call
  <1>17. ASSUME NEW k \in Key, InsertKey(r, k) PROVE Starts(r)
    <2>1. op = "createKey" /\ req'[r].key = k
      BY <1>1, <1>17 DEF InsertKey, Becomes, At, Call
    <2> QED
      BY <1>17, <2>1 DEF Starts, InsertKey
  <1>18. ASSUME NEW k \in Key, DeleteKey(r, k) PROVE Starts(r)
    <2>1. op = "deleteKey" /\ req'[r].key = k /\ req'[r].tenant = req[r].tenant
      BY <1>1, <1>18 DEF DeleteKey, Calls, Becomes, Call
    <2> QED
      BY <1>18, <2>1 DEF Starts, DeleteKey
  <1>19. op \in {"createTenant", "setRole", "remove", "invite", "accept"} => Starts(r)
    BY DEF Starts
  <1> HIDE DEF op
  <1> QED
    BY <1>2, <1>3, <1>4, <1>5, <1>6, <1>7, <1>8, <1>9, <1>10, <1>11, <1>12, <1>13, <1>14, <1>15,
       <1>16, <1>17, <1>18, <1>19 DEF Working

----------------------------------------------------------------------------
(* What a request that is to commit holds. *)

\* The others are as they were, and the request knows what its place needs.
LEMMA ActingUpdates ==
    ASSUME IInv, NEW r \in Request, Acting(r)
    PROVE /\ Acts(r)
          /\ \A q \in Others(r) : req'[q] = req[q] /\ q \in Request
  <1>1. TypeOK /\ TenantsAreDrawn /\ Sane(req[r]) /\ Grounded(req[r])
    BY DEF IInv
  <1>2. Acts(r)
    BY <1>1, AskingActs, WorkingActs, AbandonActs DEF Acting
  <1> QED
    BY <1>2 DEF Acts, Others

LEMMA RecordingStarts ==
    ASSUME IInv, NEW r \in Request, Acting(r), req'[r].pc = "recorded"
    PROVE Starts(r)
  <1>1. ~Asking(r)
    BY AskingIsQuiet DEF Quiet
  <1>2. ~Abandon(r)
    BY DEF Abandon, Becomes, IInv, TypeOK, Idle
  <1> QED
    BY <1>1, <1>2, LastPlaceStarts DEF Acting

\* What is held stays held, in each kind of step.
LEMMA ActingHolds ==
    ASSUME IInv, HeldInv, NEW r \in Request, Acting(r)
    PROVE HeldInv'
  <1>1. /\ UNCHANGED <<namespaces, keys>>
        /\ drawn \subseteq drawn'
        /\ \A q \in Others(r) : req'[q] = req[q] /\ q \in Request
    BY ActingUpdates DEF Acts, Untouched, access
  <1>2. req'[r].pc = "recorded" => Starts(r)
    BY RecordingStarts
  <1>3. \A q \in Others(r) : \A n : HoldsName(q, n)' = HoldsName(q, n)
    BY <1>1 DEF HoldsName
  <1>4. \A q \in Others(r) : \A k : HoldsKey(q, k)' = HoldsKey(q, k)
    BY <1>1 DEF HoldsKey, At
  <1>5. \A n : HoldsName(r, n)' => \A q \in Others(r) : ~HoldsName(q, n)
    BY <1>2 DEF HoldsName, Starts
  <1>6. \A k \in Key : HoldsKey(r, k)' => \A q \in Others(r) : ~HoldsKey(q, k)
    BY <1>1, <1>2 DEF HoldsKey, Starts, At
  <1>7. NamesHeld'
    <2>1. \A p \in Request : \A q \in Others(p) : \A n \in Namespace : ~(HoldsName(p, n)' /\ HoldsName(q, n)')
      BY <1>3, <1>5 DEF HeldInv, NamesHeld, Others
    <2>2. ASSUME NEW q \in Request
          PROVE /\ At(q, "recorded", "createNamespace")' => namespaces'[req'[q].name] = None
                /\ At(q, "recorded", "deleteNamespace")' => namespaces'[req'[q].name] # None
      <3>1. CASE q = r
        BY <1>1, <1>2, <3>1 DEF Starts, At
      <3>2. CASE q \in Others(r)
        BY <1>1, <3>2 DEF HeldInv, NamesHeld, At
      <3> QED
        BY <3>1, <3>2 DEF Others
    <2> QED
      BY <2>1, <2>2 DEF NamesHeld, Others
  <1>8. KeysHeld'
    <2>1. \A p \in Request : \A q \in Others(p) : \A k \in Key : ~(HoldsKey(p, k)' /\ HoldsKey(q, k)')
      BY <1>4, <1>6 DEF HeldInv, KeysHeld, Others
    <2>2. ASSUME NEW q \in Request
          PROVE /\ At(q, "recorded", "createKey")' => req'[q].key \in drawn' /\ keys'[req'[q].key] = None
                /\ At(q, "recorded", "deleteKey")' => keys'[req'[q].key] = req'[q].tenant
      <3>1. CASE q = r
        BY <1>1, <1>2, <3>1 DEF Starts, At, HeldInv, KeysHeld
      <3>2. CASE q \in Others(r)
        BY <1>1, <3>2 DEF HeldInv, KeysHeld, At
      <3> QED
        BY <3>1, <3>2 DEF Others
    <2>3. ASSUME NEW p \in Request, NEW q \in Others(p),
                 At(p, "recorded", "createKey")', At(q, "recorded", "createKey")'
          PROVE req'[p].key # req'[q].key
      <3>1. \A o \in Others(r) : At(o, "recorded", "createKey")' => req'[o].key \in drawn
        BY <1>1 DEF HeldInv, KeysHeld, At
      <3>2. At(r, "recorded", "createKey")' => req'[r].key \notin drawn
        BY <1>2 DEF Starts, At
      <3>3. CASE p = r \/ q = r
        BY <2>3, <3>1, <3>2, <3>3 DEF Others
      <3>4. CASE p # r /\ q # r
        BY <1>1, <2>3, <3>4 DEF HeldInv, KeysHeld, At, Others
      <3> QED
        BY <3>3, <3>4
    <2>4. \A k \in Key : keys'[k] # None => k \in drawn'
      BY <1>1 DEF HeldInv, KeysHeld
    <2> QED
      BY <2>1, <2>2, <2>3, <2>4 DEF KeysHeld, Others
  <1>9. OffersHeld'
    <2>1. At(r, "locked", "accept")' => req'[r].role # None
      <3>1. HeldInv => OffersHeld
        BY DEF HeldInv
      <3>2. Quiet(r) \/ Recorded(r) \/ Abandon(r)
        BY <3>1, ActingRecords
      <3>3. Abandon(r) => req'[r].pc = "idle"
        BY DEF Abandon, Becomes, IInv, TypeOK, Idle
      <3> QED
        BY <3>2, <3>3 DEF Quiet, Recorded, At
    <2> QED
      BY <1>1, <2>1 DEF HeldInv, OffersHeld, At, Others
  <1> QED
    BY <1>7, <1>8, <1>9 DEF HeldInv

\* A commit changes the names and keys that the request holds, and the key that
\* it creates.
LEMMA CommitHands ==
    ASSUME IInv, NEW r \in Request, Committing(r)
    PROVE /\ Ends(r)
          /\ drawn' = drawn
          /\ \A n \in Namespace : namespaces'[n] # namespaces[n] => HoldsName(r, n)
          /\ \A k \in Key : keys'[k] # keys[k] =>
                \/ HoldsKey(r, k) /\ keys'[k] = None
                \/ At(r, "recorded", "createKey") /\ req[r].key = k /\ keys'[k] = req[r].tenant
  <1>1. /\ namespaces \in [Namespace -> TenantId \cup {Unowned, None}]
        /\ keys \in [Key -> TenantId \cup {None}]
        /\ Sane(req[r])
    BY DEF IInv, TypeOK
  <1>2. CASE CommitTenant(r) \/ CommitMember(r) \/ CommitInvitation(r) \/ CommitAnswer(r)
    BY <1>2 DEF CommitTenant, CommitMember, CommitInvitation, CommitAnswer, access
  <1>3. CASE CommitDeletion(r)
    <2>1. Ends(r) /\ namespaces' = namespaces /\ drawn' = drawn /\ At(r, "recorded", "deleteTenant")
      BY <1>3 DEF CommitDeletion, Ends, At
    <2>2. keys' = [k \in Key |-> IF k \in {x \in Key : keys[x] = req[r].tenant} THEN None ELSE keys[k]]
      BY <1>3 DEF CommitDeletion
    <2> QED
      BY <2>1, <2>2 DEF HoldsKey
  <1>4. CASE CommitNamespace(r)
    <2>1. Ends(r) /\ keys' = keys /\ drawn' = drawn
      BY <1>4 DEF CommitNamespace, access
    <2>2. \A n \in Namespace : n # req[r].name => namespaces'[n] = namespaces[n]
      BY <1>1, <1>4 DEF CommitNamespace
    <2>3. HoldsName(r, req[r].name)
      BY <1>4 DEF CommitNamespace, Ends, HoldsName
    <2> QED
      BY <2>1, <2>2, <2>3
  <1>5. CASE CommitKey(r)
    <2>1. /\ Ends(r) /\ namespaces' = namespaces /\ drawn' = drawn
          /\ req[r].op \in {"createKey", "deleteKey"} /\ req[r].pc = "recorded"
      BY <1>5 DEF CommitKey, Ends
    <2>2. keys' = [keys EXCEPT ![req[r].key] = IF req[r].op = "createKey" THEN req[r].tenant ELSE None]
      BY <1>5 DEF CommitKey
    <2>3. \A k \in Key : k # req[r].key => keys'[k] = keys[k]
      BY <1>1, <2>2
    <2>4. req[r].key \in Key =>
             keys'[req[r].key] = IF req[r].op = "createKey" THEN req[r].tenant ELSE None
      BY <1>1, <2>2
    <2> QED
      BY <2>1, <2>3, <2>4 DEF HoldsKey, At
  <1> QED
    BY <1>2, <1>3, <1>4, <1>5 DEF Committing

LEMMA CommitHolds ==
    ASSUME IInv, HeldInv, NEW r \in Request, Committing(r)
    PROVE HeldInv'
  <1>1. /\ req'[r] = Idle
        /\ \A q \in Others(r) : req'[q] = req[q] /\ q \in Request /\ q # r /\ Sane(req[q])
    BY CommitHands, EndsOthers
  <1>2. Idle.pc = "idle"
    BY DEF Idle
  <1>3. ASSUME NEW q \in Request PROVE \A n : HoldsName(q, n)' => q \in Others(r) /\ HoldsName(q, n)
    BY <1>1, <1>2 DEF HoldsName, Others
  <1>4. ASSUME NEW q \in Request, NEW k \in Key, HoldsKey(q, k)'
        PROVE q \in Others(r) /\ HoldsKey(q, k)
    <2>1. q \in Others(r)
      BY <1>1, <1>2, <1>4 DEF HoldsKey, At, Others
    <2>2. CASE At(q, "recorded", "deleteKey")' /\ req'[q].key = k
      BY <1>1, <2>1, <2>2 DEF HoldsKey, At
    <2>3. CASE At(q, "recorded", "deleteTenant")' /\ keys'[k] = req'[q].tenant
      <3>1. At(q, "recorded", "deleteTenant") /\ keys'[k] = req[q].tenant /\ req[q].tenant \in TenantId
        BY <1>1, <2>1, <2>3 DEF At, Sane
      <3>2. req[q].tenant # None
        BY <3>1, TeamsAssumption
      <3>3. ~(At(r, "recorded", "createKey") /\ req[r].tenant = req[q].tenant)
        BY <2>1, <3>1 DEF IInv, Exclusive, Deletes, Locks, Shares, At, Others
      <3>4. keys'[k] = keys[k]
        BY <3>1, <3>2, <3>3, CommitHands
      <3> QED
        BY <2>1, <3>1, <3>4 DEF HoldsKey
    <2> QED
      BY <1>4, <2>1, <2>2, <2>3 DEF HoldsKey
  <1>5. NamesHeld'
    <2>1. \A p \in Request : \A q \in Others(p) : \A n \in Namespace : ~(HoldsName(p, n)' /\ HoldsName(q, n)')
      BY <1>3 DEF HeldInv, NamesHeld, Others
    <2>2. ASSUME NEW q \in Request, req'[q].pc = "recorded", req'[q].op \in {"createNamespace", "deleteNamespace"}
          PROVE namespaces'[req'[q].name] = namespaces[req[q].name] /\ req'[q] = req[q]
      <3>1. q \in Others(r) /\ req'[q] = req[q]
        BY <1>1, <1>2, <2>2 DEF Others
      <3>2. HoldsName(q, req[q].name) /\ req[q].name \in Namespace
        BY <1>1, <2>2, <3>1 DEF HoldsName, Sane
      <3>3. ~HoldsName(r, req[q].name)
        BY <3>1, <3>2 DEF HeldInv, NamesHeld, Others
      <3> QED
        BY <3>1, <3>2, <3>3, CommitHands
    <2>3. ASSUME NEW q \in Request
          PROVE /\ At(q, "recorded", "createNamespace")' => namespaces'[req'[q].name] = None
                /\ At(q, "recorded", "deleteNamespace")' => namespaces'[req'[q].name] # None
      BY <2>2 DEF HeldInv, NamesHeld, At
    <2> QED
      BY <2>1, <2>3 DEF NamesHeld, Others
  <1>6. KeysHeld'
    <2>1. \A p \in Request : \A q \in Others(p) : \A k \in Key : ~(HoldsKey(p, k)' /\ HoldsKey(q, k)')
      <3>1. \A p \in Request : \A q \in Others(p) : \A k \in Key : ~(HoldsKey(p, k) /\ HoldsKey(q, k))
        BY DEF HeldInv, KeysHeld
      <3> QED
        BY <1>4, <3>1 DEF Others
    <2>2. ASSUME NEW q \in Request, req'[q].pc = "recorded"
          PROVE q \in Others(r) /\ req'[q] = req[q] /\ Sane(req[q])
      BY <1>1, <1>2, <2>2 DEF Others
    <2>3. ASSUME NEW q \in Request, At(q, "recorded", "createKey")'
          PROVE req'[q].key \in drawn' /\ keys'[req'[q].key] = None
      <3>1. At(q, "recorded", "createKey") /\ req[q].key \in Key /\ q \in Others(r) /\ req'[q] = req[q]
        BY <2>2, <2>3 DEF At, Sane
      <3>2. req[q].key \in drawn /\ keys[req[q].key] = None
        BY <3>1 DEF HeldInv, KeysHeld
      <3>3. ~(At(r, "recorded", "createKey") /\ req[r].key = req[q].key)
        BY <3>1 DEF HeldInv, KeysHeld, Others
      <3> QED
        BY <3>1, <3>2, <3>3, CommitHands
    <2>4. ASSUME NEW q \in Request, At(q, "recorded", "deleteKey")'
          PROVE keys'[req'[q].key] = req'[q].tenant
      <3>1. /\ At(q, "recorded", "deleteKey") /\ req[q].key \in Key /\ req[q].tenant \in TenantId
            /\ q \in Others(r) /\ req'[q] = req[q]
        BY <2>2, <2>4 DEF At, Sane
      <3>2. keys[req[q].key] = req[q].tenant /\ HoldsKey(q, req[q].key)
        BY <3>1 DEF HeldInv, KeysHeld, HoldsKey
      <3>3. ~HoldsKey(r, req[q].key)
        BY <3>1, <3>2 DEF HeldInv, KeysHeld, Others
      <3>4. ~(At(r, "recorded", "createKey") /\ req[r].key = req[q].key)
        BY <3>1, <3>2, TeamsAssumption DEF HeldInv, KeysHeld
      <3> QED
        BY <3>1, <3>2, <3>3, <3>4, CommitHands
    <2>5. ASSUME NEW p \in Request, NEW q \in Others(p),
                 At(p, "recorded", "createKey")', At(q, "recorded", "createKey")'
          PROVE req'[p].key # req'[q].key
      <3>1. req'[p] = req[p] /\ req'[q] = req[q] /\ q \in Request
        BY <2>2, <2>5 DEF At, Others
      <3> QED
        BY <2>5, <3>1 DEF HeldInv, KeysHeld, At
    <2>6. ASSUME NEW k \in Key, keys'[k] # None PROVE k \in drawn'
      <3>1. drawn' = drawn
        BY CommitHands
      <3>2. CASE keys'[k] = keys[k]
        BY <2>6, <3>1, <3>2 DEF HeldInv, KeysHeld
      <3>3. CASE At(r, "recorded", "createKey") /\ req[r].key = k
        BY <3>1, <3>3 DEF HeldInv, KeysHeld
      <3> QED
        BY <2>6, <3>2, <3>3, CommitHands
    <2> QED
      BY <2>1, <2>3, <2>4, <2>5, <2>6 DEF KeysHeld, Others
  <1>7. OffersHeld'
    BY <1>1, <1>2 DEF HeldInv, OffersHeld, At, Others
  <1> QED
    BY <1>5, <1>6, <1>7 DEF HeldInv

----------------------------------------------------------------------------
(* What a request says stays so, and nobody else is to say it. *)

\* What a subject of a request is, by its kind.
LEMMA SubjectKinds ==
    ASSUME NEW q \in Request, NEW s \in Subjects(q)
    PROVE LET c == req[q] IN
          /\ s \in Subject /\ c.pc = "recorded"
          /\ s[2] \in {"tenant", "member", "invitation", "namespace", "key"}
          /\ s[2] = "tenant" => c.op \in {"createTenant", "deleteTenant"} /\ s = <<c.tenant, "tenant", None>>
          /\ s[2] = "member" =>
                /\ s = <<c.tenant, "member", c.user>>
                /\ c.op \in {"createTenant", "setRole", "remove"} \/ (c.op = "accept" /\ c.role # None)
          /\ s[2] = "invitation" =>
                c.op \in {"invite", "revoke", "decline", "accept"} /\ s = <<c.tenant, "invitation", c.user>>
          /\ s[2] = "namespace" =>
                \/ c.op = "createNamespace" /\ s = <<c.tenant, "namespace", c.name>>
                \/ c.op = "deleteNamespace" /\ s = <<namespaces[c.name], "namespace", c.name>>
          /\ s[2] = "key" => c.op \in {"createKey", "deleteKey"} /\ s = <<c.tenant, "key", c.key>>
  BY DEF Subjects

\* No two requests have events waiting on one subject.
OneEach == \A r \in Request : \A q \in Others(r) : \A s \in Subjects(r) : s \notin Subjects(q)

LEMMA OneWriter == IInv /\ HeldInv => OneEach
  <1> SUFFICES ASSUME IInv, HeldInv, NEW r \in Request, NEW q \in Others(r), NEW s \in Subjects(r),
                      s \in Subjects(q)
               PROVE FALSE
    BY DEF OneEach
  <1>1. /\ q \in Request /\ q # r /\ r \in Others(q)
        /\ Sane(req[r]) /\ Sane(req[q]) /\ Grounded(req[r]) /\ Grounded(req[q])
        /\ req[r].pc = "recorded" /\ req[q].pc = "recorded"
    BY SubjectKinds DEF IInv, Others
  <1> DEFINE t == req[r].tenant  u == req[r].user
  <1>2. CASE s[2] = "tenant"
    <2>1. /\ req[r].op \in {"createTenant", "deleteTenant"} /\ req[q].op \in {"createTenant", "deleteTenant"}
          /\ s = <<t, "tenant", None>> /\ s = <<req[q].tenant, "tenant", None>>
      BY <1>1, <1>2, SubjectKinds
    <2>2. req[q].tenant = t /\ t \in TenantId
      BY <1>1, <2>1 DEF Sane
    <2>3. \A p \in {r, q} : /\ req[p].op = "createTenant" => tenants[t] = None
                            /\ req[p].op = "deleteTenant" => tenants[t] # None
      BY <1>1, <2>2 DEF IInv, Grounded, HeldTeamsExist, Locks
    <2> QED
      BY <1>1, <2>1, <2>2, <2>3 DEF IInv, Exclusive, Locks, At
  <1>3. CASE s[2] = "member"
    <2>1. /\ s = <<t, "member", u>> /\ s = <<req[q].tenant, "member", req[q].user>>
          /\ \A p \in {r, q} : \/ req[p].op \in {"createTenant", "setRole", "remove"}
                               \/ req[p].op = "accept" /\ req[p].role # None
      BY <1>1, <1>3, SubjectKinds
    <2>2. req[q].tenant = t /\ t \in TenantId /\ req[q].user = u /\ u \in User
      BY <1>1, <2>1 DEF Sane
    <2>3. \A p \in {r, q} : /\ req[p].op = "createTenant" => tenants[t] = None
                            /\ req[p].op \in {"setRole", "remove", "accept"} => tenants[t] # None
      BY <1>1, <2>2 DEF IInv, Grounded, HeldTeamsExist, Locks, Shares
    <2>4. \A p \in {r, q} : /\ req[p].op \in {"setRole", "remove"} => members[t][u] # None
                            /\ req[p].op = "accept" /\ req[p].role # None => members[t][u] = None
      BY <1>1, <2>2 DEF Grounded
    <2>5. CASE req[r].op = "createTenant" /\ req[q].op = "createTenant"
      BY <1>1, <2>2, <2>5 DEF IInv, Exclusive, At
    <2>6. CASE req[r].op \in {"setRole", "remove"} /\ req[q].op \in {"setRole", "remove"}
      BY <1>1, <2>2, <2>6 DEF IInv, Exclusive, Locks
    <2>7. CASE req[r].op = "accept" /\ req[q].op = "accept"
      <3>1. HoldsInvitation(r, t, u) /\ HoldsInvitation(q, t, u)
        BY <1>1, <2>2, <2>7 DEF Sane, HoldsInvitation
      <3> QED
        BY <1>1, <2>2, <3>1 DEF IInv, Exclusive
    <2> QED
      BY <2>1, <2>3, <2>4, <2>5, <2>6, <2>7
  <1>4. CASE s[2] = "invitation"
    <2>1. /\ s = <<t, "invitation", u>> /\ s = <<req[q].tenant, "invitation", req[q].user>>
          /\ \A p \in {r, q} : req[p].op \in {"invite", "revoke", "decline", "accept"}
      BY <1>1, <1>4, SubjectKinds
    <2>2. req[q].tenant = t /\ t \in TenantId /\ req[q].user = u /\ u \in User
      BY <1>1, <2>1 DEF Sane
    <2>3. HoldsInvitation(r, t, u) /\ HoldsInvitation(q, t, u)
      BY <1>1, <2>1, <2>2 DEF Sane, HoldsInvitation
    <2> QED
      BY <1>1, <2>2, <2>3 DEF IInv, Exclusive
  <1>5. CASE s[2] = "namespace"
    <2>1. /\ s[3] = req[r].name /\ s[3] = req[q].name
          /\ \A p \in {r, q} : req[p].op \in {"createNamespace", "deleteNamespace"}
      BY <1>1, <1>5, SubjectKinds
    <2>2. HoldsName(r, s[3]) /\ HoldsName(q, s[3]) /\ s[3] \in Namespace
      BY <1>1, <2>1 DEF HoldsName, Sane
    <2> QED
      BY <2>2 DEF HeldInv, NamesHeld
  <1>6. CASE s[2] = "key"
    <2>1. /\ s[3] = req[r].key /\ s[3] = req[q].key /\ s[1] = req[r].tenant /\ s[1] = req[q].tenant
          /\ \A p \in {r, q} : req[p].op \in {"createKey", "deleteKey"}
      BY <1>1, <1>6, SubjectKinds
    <2>2. req[r].key \in Key /\ req[q].key \in Key /\ req[r].tenant \in TenantId /\ req[q].tenant \in TenantId
      BY <1>1, <2>1 DEF Sane
    <2>3. \A p \in {r, q} : /\ req[p].op = "createKey" => keys[s[3]] = None
                            /\ req[p].op = "deleteKey" => keys[s[3]] = s[1] /\ HoldsKey(p, s[3])
      BY <1>1, <2>1 DEF HeldInv, KeysHeld, HoldsKey, At
    <2>4. s[1] # None
      BY <2>1, <2>2, TeamsAssumption
    <2>5. ~(req[r].op = "createKey" /\ req[q].op = "createKey")
      BY <1>1, <2>1 DEF HeldInv, KeysHeld, At
    <2>6. ~(req[r].op = "deleteKey" /\ req[q].op = "deleteKey")
      BY <1>1, <2>1, <2>2, <2>3 DEF HeldInv, KeysHeld
    <2> QED
      BY <2>1, <2>3, <2>4, <2>5, <2>6
  <1> QED
    BY <1>2, <1>3, <1>4, <1>5, <1>6, SubjectKinds

\* What a request says depends on its place and, for a namespace it deletes, on
\* who owns that.
LEMMA SubjectsStay ==
    ASSUME IInv, NEW q \in Request, req'[q] = req[q],
           At(q, "recorded", "deleteNamespace") => namespaces'[req[q].name] = namespaces[req[q].name]
    PROVE /\ Subjects(q)' = Subjects(q)
          /\ \A s : Event(q, s)' = Event(q, s)
  <1>1. \A s : Event(q, s)' = Event(q, s)
    BY DEF Event, Says
  <1>2. Subjects(q)' = Subjects(q)
    <2>1. CASE At(q, "recorded", "deleteNamespace")
      BY <2>1 DEF Subjects, At
    <2>2. CASE ~At(q, "recorded", "deleteNamespace")
      BY <2>2 DEF Subjects, At
    <2> QED
      BY <2>1, <2>2
  <1> QED
    BY <1>1, <1>2

LEMMA NothingElseRecorded ==
    ASSUME NEW q \in Request, req[q].pc # "recorded"
    PROVE Subjects(q) = {}
  BY DEF Subjects

LEMMA NothingElseRecordedNext ==
    ASSUME NEW q \in Request, req'[q].pc # "recorded"
    PROVE Subjects(q)' = {}
  BY DEF Subjects

----------------------------------------------------------------------------
(* The logs, step by step. *)

\* The logs of others are left alone.
LEMMA LogStays ==
    ASSUME NEW s \in Subject, LogFits(s), audit'[s] = audit[s],
           \A q \in Request : s \in Subjects(q)' <=> s \in Subjects(q),
           \A q \in Request : s \in Subjects(q) => Event(q, s)' = Event(q, s)
    PROVE LogFits(s)' /\ Replay(s)' = Replay(s)
  <1>1. Replay(s)' = Replay(s)
    BY DEF Replay
  <1>2. CASE Clean(audit[s], Replay(s)) /\ \A q \in Request : s \notin Subjects(q)
    <2>1. Clean(audit[s], Replay(s))'
      BY <1>1, <1>2 DEF Clean
    <2> QED
      BY <1>1, <1>2, <2>1 DEF LogFits
  <1>3. CASE \E q \in Request : s \in Subjects(q) /\ Pending(audit[s], Replay(s), Event(q, s))
    <2>1. PICK q \in Request : s \in Subjects(q) /\ Pending(audit[s], Replay(s), Event(q, s))
      BY <1>3
    <2>2. Pending(audit[s], Replay(s), Event(q, s))'
      BY <1>1, <2>1 DEF Pending
    <2> QED
      BY <1>1, <2>1, <2>2 DEF LogFits
  <1> QED
    BY <1>2, <1>3 DEF LogFits

\* The others say what they said.
LEMMA OthersSay ==
    ASSUME IInv, HeldInv, NEW r \in Request, Acting(r) \/ Committing(r), NEW q \in Others(r)
    PROVE /\ q \in Request /\ q # r
          /\ Subjects(q)' = Subjects(q)
          /\ \A s : Event(q, s)' = Event(q, s)
  <1>1. q \in Request /\ q # r
    BY DEF Others
  <1>2. req'[q] = req[q]
    BY ActingUpdates, CommitHands, EndsOthers
  <1>3. At(q, "recorded", "deleteNamespace") => namespaces'[req[q].name] = namespaces[req[q].name]
    <2>1. CASE Acting(r)
      BY <2>1, ActingUpdates DEF Acts, Untouched
    <2>2. CASE Committing(r)
      <3>1. SUFFICES ASSUME At(q, "recorded", "deleteNamespace")
                     PROVE namespaces'[req[q].name] = namespaces[req[q].name]
        OBVIOUS
      <3>2. HoldsName(q, req[q].name) /\ req[q].name \in Namespace
        BY <1>1, <3>1 DEF HoldsName, At, IInv, Sane
      <3>3. ~HoldsName(r, req[q].name)
        BY <3>2 DEF HeldInv, NamesHeld
      <3> QED
        BY <2>2, <3>2, <3>3, CommitHands
    <2> QED
      BY <2>1, <2>2
  <1> QED
    BY <1>1, <1>2, <1>3, SubjectsStay

\* The logs still fit after each kind of step.
LEMMA QuietLogs ==
    ASSUME IInv, HeldInv, LogsFit, NEW r \in Request, Acting(r), Quiet(r)
    PROVE LogsFit' /\ \A s \in Subject : Replay(s)' = Replay(s)
  <1>1. Subjects(r) = {} /\ Subjects(r)' = {}
    BY NothingElseRecorded, NothingElseRecordedNext DEF Quiet
  <1>2. \A q \in Others(r) : Subjects(q)' = Subjects(q) /\ \A s : Event(q, s)' = Event(q, s)
    BY OthersSay
  <1>3. ASSUME NEW s \in Subject PROVE LogFits(s)' /\ Replay(s)' = Replay(s)
    <2>1. LogFits(s) /\ audit'[s] = audit[s]
      BY DEF LogsFit, Quiet
    <2>2. \A q \in Request : /\ s \in Subjects(q)' <=> s \in Subjects(q)
                             /\ s \in Subjects(q) => Event(q, s)' = Event(q, s)
      BY <1>1, <1>2 DEF Others
    <2> QED
      BY <2>1, <2>2, LogStays
  <1> QED
    BY <1>3 DEF LogsFit, Quiet

LEMMA RecordedLogs ==
    ASSUME IInv, HeldInv, IInv', HeldInv', LogsFit, NEW r \in Request, Acting(r), Recorded(r)
    PROVE LogsFit' /\ \A s \in Subject : Replay(s)' = Replay(s)
  <1>1. Subjects(r) = {}
    BY NothingElseRecorded DEF Recorded
  <1>2. \A q \in Others(r) : Subjects(q)' = Subjects(q) /\ \A s : Event(q, s)' = Event(q, s)
    BY OthersSay
  <1>3. \A q \in Others(r) : \A s \in Subjects(r)' : s \notin Subjects(q)'
    <2>1. IInv' /\ HeldInv' => OneEach'
      BY OneWriter, PTL
    <2> QED
      BY <2>1 DEF OneEach, Others
  <1>4. ASSUME NEW s \in Subject, s \in Subjects(r)' PROVE LogFits(s)' /\ Replay(s)' = Replay(s)
    <2>1. \A q \in Request : s \notin Subjects(q)
      BY <1>1, <1>2, <1>3, <1>4 DEF Others
    <2>2. Clean(audit[s], Replay(s))
      BY <2>1 DEF LogsFit, LogFits
    <2>3. audit'[s] = Append(audit[s], Event(r, s)')
      BY <1>4 DEF Recorded
    <2>4. Pending(audit'[s], Replay(s), Event(r, s)')
      BY <2>2, <2>3, LogAppended
    <2>5. Told(audit'[s]) = Replay(s)
      <3> DEFINE w == Says(r, s)'
      <3>1. Pending(audit'[s], Replay(s), [to |-> w, by |-> r])
        BY <2>4 DEF Event
      <3> HIDE DEF w
      <3> QED
        BY <3>1, PendingLog
    <2>6. Replay(s)' = Replay(s)
      BY <2>5 DEF Replay
    <2>7. Pending(audit[s], Replay(s), Event(r, s))'
      BY <2>4, <2>6 DEF Pending
    <2> QED
      BY <1>4, <2>6, <2>7 DEF LogFits
  <1>5. ASSUME NEW s \in Subject, s \notin Subjects(r)' PROVE LogFits(s)' /\ Replay(s)' = Replay(s)
    <2>1. LogFits(s) /\ audit'[s] = audit[s]
      BY <1>5 DEF LogsFit, Recorded
    <2>2. \A q \in Request : /\ s \in Subjects(q)' <=> s \in Subjects(q)
                             /\ s \in Subjects(q) => Event(q, s)' = Event(q, s)
      BY <1>1, <1>2, <1>5 DEF Others
    <2> QED
      BY <2>1, <2>2, LogStays
  <1> QED
    BY <1>4, <1>5 DEF LogsFit, Recorded

LEMMA DroppedLogs ==
    ASSUME IInv, HeldInv, LogsFit, NEW r \in Request, Abandon(r)
    PROVE LogsFit' /\ \A s \in Subject : Replay(s)' = Replay(s)
  <1>1. Subjects(r)' = {}
    BY NothingElseRecordedNext DEF Abandon, Becomes, IInv, TypeOK, Idle
  <1>2. \A q \in Others(r) : Subjects(q)' = Subjects(q) /\ \A s : Event(q, s)' = Event(q, s)
    BY OthersSay DEF Acting
  <1>3. DOMAIN audit' = Subject /\ \A s \in Subject : audit'[s] = Dropped(audit[s], r)
    BY DEF Abandon
  <1>4. ASSUME NEW s \in Subject, s \in Subjects(r) PROVE LogFits(s)' /\ Replay(s)' = Replay(s)
    <2> DEFINE w == Says(r, s)
    <2>1. \A q \in Others(r) : s \notin Subjects(q)
      BY <1>4, OneWriter DEF OneEach
    <2>2. Pending(audit[s], Replay(s), [to |-> w, by |-> r])
      BY <1>4, <2>1 DEF LogsFit, LogFits, Event, Others
    <2> HIDE DEF w
    <2>3. Clean(audit'[s], Replay(s))
      BY <1>3, <2>2, PendingLog
    <2>4. Replay(s)' = Replay(s)
      BY <2>3, CleanTold DEF Replay
    <2>5. Clean(audit[s], Replay(s))'
      BY <2>3, <2>4 DEF Clean
    <2>6. \A q \in Request : s \notin Subjects(q)'
      BY <1>1, <1>2, <2>1 DEF Others
    <2> QED
      BY <2>4, <2>5, <2>6 DEF LogFits
  <1>5. ASSUME NEW s \in Subject, s \notin Subjects(r) PROVE LogFits(s)' /\ Replay(s)' = Replay(s)
    <2>1. LogFits(s)
      BY DEF LogsFit
    <2>2. Dropped(audit[s], r) = audit[s]
      <3>1. CASE Clean(audit[s], Replay(s))
        BY <3>1, CleanLog
      <3>2. CASE \E q \in Request : s \in Subjects(q) /\ Pending(audit[s], Replay(s), Event(q, s))
        <4>1. PICK q \in Request : s \in Subjects(q) /\ Pending(audit[s], Replay(s), Event(q, s))
          BY <3>2
        <4> DEFINE w == Says(q, s)
        <4>2. Pending(audit[s], Replay(s), [to |-> w, by |-> q]) /\ r # q
          BY <1>5, <4>1 DEF Event
        <4> HIDE DEF w
        <4> QED
          BY <4>2, PendingLog
      <3> QED
        BY <2>1, <3>1, <3>2 DEF LogFits
    <2>3. \A q \in Request : /\ s \in Subjects(q)' <=> s \in Subjects(q)
                             /\ s \in Subjects(q) => Event(q, s)' = Event(q, s)
      BY <1>1, <1>2, <1>5 DEF Others
    <2> QED
      BY <1>3, <2>1, <2>2, <2>3, LogStays
  <1> QED
    BY <1>3, <1>4, <1>5 DEF LogsFit

LEMMA SettledLogs ==
    ASSUME IInv, HeldInv, LogsFit, NEW r \in Request, Committing(r)
    PROVE /\ LogsFit'
          /\ \A s \in Subjects(r) : Replay(s)' = Says(r, s)
          /\ \A s \in Subject \ Subjects(r) : Replay(s)' = Replay(s)
  <1>1. Subjects(r)' = {}
    BY CommitHands, EndsOthers, NothingElseRecordedNext DEF Idle
  <1>2. \A q \in Others(r) : Subjects(q)' = Subjects(q) /\ \A s : Event(q, s)' = Event(q, s)
    BY OthersSay
  <1>3. DOMAIN audit' = Subject /\ \A s \in Subject : audit'[s] = Settled(audit[s], r)
    BY CommitHands DEF Ends
  <1>4. ASSUME NEW s \in Subject, s \in Subjects(r) PROVE LogFits(s)' /\ Replay(s)' = Says(r, s)
    <2> DEFINE w == Says(r, s)
    <2>1. \A q \in Others(r) : s \notin Subjects(q)
      BY <1>4, OneWriter DEF OneEach
    <2>2. Pending(audit[s], Replay(s), [to |-> w, by |-> r])
      BY <1>4, <2>1 DEF LogsFit, LogFits, Event, Others
    <2> HIDE DEF w
    <2>3. Clean(audit'[s], w)
      BY <1>3, <2>2, PendingLog
    <2>4. Replay(s)' = w
      BY <2>3, CleanTold DEF Replay
    <2>5. Clean(audit[s], Replay(s))'
      BY <2>3, <2>4 DEF Clean
    <2>6. \A q \in Request : s \notin Subjects(q)'
      BY <1>1, <1>2, <2>1 DEF Others
    <2> QED
      BY <2>4, <2>5, <2>6 DEF LogFits, w
  <1>5. ASSUME NEW s \in Subject, s \notin Subjects(r) PROVE LogFits(s)' /\ Replay(s)' = Replay(s)
    <2>1. LogFits(s)
      BY DEF LogsFit
    <2>2. Settled(audit[s], r) = audit[s]
      <3>1. CASE Clean(audit[s], Replay(s))
        BY <3>1, CleanLog
      <3>2. CASE \E q \in Request : s \in Subjects(q) /\ Pending(audit[s], Replay(s), Event(q, s))
        <4>1. PICK q \in Request : s \in Subjects(q) /\ Pending(audit[s], Replay(s), Event(q, s))
          BY <3>2
        <4> DEFINE w == Says(q, s)
        <4>2. Pending(audit[s], Replay(s), [to |-> w, by |-> q]) /\ r # q
          BY <1>5, <4>1 DEF Event
        <4> HIDE DEF w
        <4> QED
          BY <4>2, PendingLog
      <3> QED
        BY <2>1, <3>1, <3>2 DEF LogFits
    <2>3. \A q \in Request : /\ s \in Subjects(q)' <=> s \in Subjects(q)
                             /\ s \in Subjects(q) => Event(q, s)' = Event(q, s)
      BY <1>1, <1>2, <1>5 DEF Others
    <2> QED
      BY <1>3, <2>1, <2>2, <2>3, LogStays
  <1>6. Subjects(r) \subseteq Subject
    BY DEF Subjects
  <1> QED
    BY <1>3, <1>4, <1>5, <1>6 DEF LogsFit

----------------------------------------------------------------------------
(* The tables. *)

\* Subjects and their tables.
LEMMA SubjectIs ==
    ASSUME NEW s \in Subject
    PROVE /\ s = <<s[1], s[2], s[3]>>
          /\ s[2] \in {"tenant", "member", "invitation", "namespace", "key"}
          /\ s[2] = "tenant" => s[1] \in TenantId /\ s[3] = None
          /\ s[2] \in {"member", "invitation"} => s[1] \in TenantId /\ s[3] \in User
          /\ s[2] = "namespace" => s[1] \in TenantId \cup {Unowned} /\ s[3] \in Namespace
          /\ s[2] = "key" => s[1] \in TenantId /\ s[3] \in Key
          /\ s[1] # None
  BY TeamsAssumption DEF Subject

LEMMA TableIs ==
    ASSUME NEW s
    PROVE /\ s[2] = "tenant" => Table(s) = tenants[s[1]]
          /\ s[2] = "member" => Table(s) = members[s[1]][s[3]]
          /\ s[2] = "invitation" => Table(s) = invitations[s[1]][s[3]]
          /\ s[2] = "namespace" => Table(s) = IF namespaces[s[3]] = s[1] THEN s[1] ELSE None
          /\ s[2] = "key" => Table(s) = IF keys[s[3]] = s[1] THEN s[3] ELSE None
  BY DEF Table

LEMMA TableIsNext ==
    ASSUME NEW s
    PROVE /\ s[2] = "tenant" => Table(s)' = tenants'[s[1]]
          /\ s[2] = "member" => Table(s)' = members'[s[1]][s[3]]
          /\ s[2] = "invitation" => Table(s)' = invitations'[s[1]][s[3]]
          /\ s[2] = "namespace" => Table(s)' = IF namespaces'[s[3]] = s[1] THEN s[1] ELSE None
          /\ s[2] = "key" => Table(s)' = IF keys'[s[3]] = s[1] THEN s[3] ELSE None
  BY DEF Table

\* A commit says of its subjects what it recorded, and nothing of the others that
\* are still compared.
Agrees(r, s) ==
    Compared(s)' =>
       IF s \in Subjects(r) THEN Table(s)' = Says(r, s) ELSE Table(s)' = Table(s) /\ Compared(s)

\* No commit brings a team to life but its creator's, who is about to.
LEMMA NoneComesToLife ==
    ASSUME IInv, NEW r \in Request, Committing(r), NEW t \in TenantId, Live(t)'
    PROVE Live(t)
  <1>1. drawn' = drawn /\ Ends(r) /\ tenants \in [TenantId -> Name \cup {None}]
    BY CommitHands DEF IInv, TypeOK
  <1>2. ASSUME tenants'[t] # None PROVE Live(t)
    <2>1. CASE CommitTenant(r)
      <3>1. At(r, "recorded", "createTenant")
        BY <2>1 DEF CommitTenant, Ends, At
      <3>2. tenants' = [tenants EXCEPT ![req[r].tenant] = req[r].name]
        BY <2>1 DEF CommitTenant
      <3> QED
        BY <1>1, <1>2, <3>1, <3>2 DEF Live
    <2>2. CASE CommitDeletion(r)
      <3>1. tenants' = [tenants EXCEPT ![req[r].tenant] = None]
        BY <2>2 DEF CommitDeletion
      <3> QED
        BY <1>1, <1>2, <3>1 DEF Live
    <2>3. CASE CommitMember(r) \/ CommitInvitation(r) \/ CommitAnswer(r) \/ CommitNamespace(r) \/ CommitKey(r)
      <3>1. tenants' = tenants
        BY <2>3 DEF CommitMember, CommitInvitation, CommitAnswer, CommitNamespace, CommitKey
      <3> QED
        BY <1>2, <3>1 DEF Live
    <2> QED
      BY <2>1, <2>2, <2>3 DEF Committing
  <1>3. ASSUME NEW q \in Request, At(q, "recorded", "createTenant")', req'[q].tenant = t
        PROVE Live(t)
    <2>1. q \in Others(r) /\ req'[q] = req[q]
      BY <1>1, <1>3, EndsOthers DEF At, Others, Idle
    <2> QED
      BY <1>3, <2>1 DEF Live, At
  <1> QED
    BY <1>1, <1>2, <1>3 DEF Live

\* Nor is a team that a commit deletes.
LEMMA DeletedIsNotLive ==
    ASSUME IInv, NEW r \in Request, CommitDeletion(r), NEW t, t = req[r].tenant
    PROVE t \in TenantId /\ tenants[t] # None /\ ~Live(t)'
  <1>1. /\ At(r, "recorded", "deleteTenant") /\ t \in TenantId /\ drawn' = drawn /\ Ends(r)
        /\ tenants' = [tenants EXCEPT ![t] = None]
    BY DEF CommitDeletion, Ends, At, IInv, Sane
  <1>2. tenants[t] # None /\ t \in drawn
    BY <1>1 DEF IInv, HeldTeamsExist, Locks, At, TenantsAreDrawn
  <1>3. tenants'[t] = None
    BY <1>1 DEF IInv, TypeOK
  <1>4. \A q \in Request : ~(At(q, "recorded", "createTenant")' /\ req'[q].tenant = t)
    <2>1. SUFFICES ASSUME NEW q \in Request, At(q, "recorded", "createTenant")', req'[q].tenant = t
                   PROVE FALSE
      OBVIOUS
    <2>2. q \in Others(r) /\ req'[q] = req[q] /\ Grounded(req[q])
      BY <1>1, <2>1, EndsOthers DEF At, Others, Idle
    <2> QED
      BY <1>2, <2>1, <2>2 DEF Grounded, At
  <1> QED
    BY <1>1, <1>2, <1>3, <1>4 DEF Live

\* The logs still agree with the tables after each commit.
LEMMA TenantAgrees ==
    ASSUME IInv, NEW r \in Request, CommitTenant(r), NEW s \in Subject
    PROVE Agrees(r, s)
  <1> DEFINE t == req[r].tenant  u == req[r].user
  <1>1. /\ At(r, "recorded", "createTenant") /\ t \in TenantId /\ u \in User
        /\ tenants' = [tenants EXCEPT ![t] = req[r].name]
        /\ members' = [members EXCEPT ![t][u] = "owner"]
        /\ UNCHANGED <<invitations, expired, namespaces, keys>>
    BY DEF CommitTenant, Ends, At, IInv, Sane, access
  <1>2. s \in Subjects(r) <=> s = <<t, "tenant", None>> \/ s = <<t, "member", u>>
    BY <1>1 DEF Subjects, At
  <1>3. Says(r, s) = IF s[2] = "tenant" THEN req[r].name ELSE "owner"
    BY <1>1 DEF Says, At
  <1>4. Compared(s)' => Compared(s)
    <2>1. s[1] \in TenantId /\ Live(s[1])' => Live(s[1])
      BY NoneComesToLife DEF Committing
    <2> QED
      BY <1>1, <2>1, SubjectIs DEF Compared
  <1>5. tenants \in [TenantId -> Name \cup {None}] /\ members \in [TenantId -> [User -> Role \cup {None}]]
    BY DEF IInv, TypeOK
  <1>6. CASE s[2] = "tenant"
    <2>1. Table(s)' = tenants'[s[1]] /\ Table(s) = tenants[s[1]]
      BY <1>6, TableIs, TableIsNext
    <2>2. s \in Subjects(r) <=> s[1] = t
      BY <1>2, <1>6, SubjectIs
    <2> QED
      BY <1>1, <1>3, <1>4, <1>5, <1>6, <2>1, <2>2, SubjectIs DEF Agrees
  <1>7. CASE s[2] = "member"
    <2>1. Table(s)' = members'[s[1]][s[3]] /\ Table(s) = members[s[1]][s[3]]
      BY <1>7, TableIs, TableIsNext
    <2>2. s \in Subjects(r) <=> s[1] = t /\ s[3] = u
      BY <1>2, <1>7, SubjectIs
    <2> QED
      BY <1>1, <1>3, <1>4, <1>5, <1>7, <2>1, <2>2, SubjectIs DEF Agrees
  <1>8. CASE s[2] \in {"invitation", "namespace", "key"}
    <2>1. Table(s)' = Table(s)
      BY <1>1, <1>8, TableIs, TableIsNext
    <2>2. s \notin Subjects(r)
      BY <1>2, <1>8
    <2> QED
      BY <1>4, <2>1, <2>2 DEF Agrees
  <1> QED
    BY <1>6, <1>7, <1>8, SubjectIs

LEMMA DeletionAgrees ==
    ASSUME IInv, NEW r \in Request, CommitDeletion(r), NEW s \in Subject
    PROVE Agrees(r, s)
  <1>0. PICK t : t = req[r].tenant
    OBVIOUS
  <1>1. /\ At(r, "recorded", "deleteTenant")
        /\ tenants' = [tenants EXCEPT ![t] = None]
        /\ members' = [members EXCEPT ![t] = [u \in User |-> None]]
        /\ invitations' = [invitations EXCEPT ![t] = [u \in User |-> None]]
        /\ expired' = expired \ ({t} \X User)
        /\ keys' = [k \in Key |-> IF k \in {x \in Key : keys[x] = t} THEN None ELSE keys[k]]
        /\ namespaces' = namespaces
    BY <1>0 DEF CommitDeletion, Ends, At
  <1>2. t \in TenantId /\ ~Live(t)'
    BY <1>0, DeletedIsNotLive
  <1>3. s \in Subjects(r) <=> s = <<t, "tenant", None>>
    BY <1>0, <1>1 DEF Subjects, At
  <1>4. Says(r, s) = None
    BY <1>1 DEF Says, At
  <1>5. /\ tenants \in [TenantId -> Name \cup {None}]
        /\ members \in [TenantId -> [User -> Role \cup {None}]]
        /\ invitations \in [TenantId -> [User -> Role \cup {None}]]
    BY DEF IInv, TypeOK
  <1>6. CASE s[2] = "tenant"
    <2>1. Table(s)' = tenants'[s[1]] /\ Table(s) = tenants[s[1]]
      BY <1>6, TableIs, TableIsNext
    <2>2. s \in Subjects(r) <=> s[1] = t
      BY <1>3, <1>6, SubjectIs
    <2>3. Compared(s)
      BY <1>6 DEF Compared
    <2> QED
      BY <1>1, <1>2, <1>4, <1>5, <2>1, <2>2, <2>3, <1>6, SubjectIs DEF Agrees
  <1>7. CASE s[2] # "tenant" /\ s[1] = t
    <2>1. s[1] # Unowned
      BY <1>2, <1>7, TeamsAssumption
    <2>2. ~Compared(s)'
      BY <1>2, <1>7, <2>1 DEF Compared
    <2> QED
      BY <2>2 DEF Agrees
  <1>8. CASE s[2] # "tenant" /\ s[1] # t
    <2>1. s \notin Subjects(r)
      BY <1>3, <1>8
    <2>2. Table(s)' = Table(s)
      <3>1. CASE s[2] = "member"
        BY <1>1, <1>2, <1>5, <1>8, <3>1, TableIs, TableIsNext, SubjectIs
      <3>2. CASE s[2] = "invitation"
        BY <1>1, <1>2, <1>5, <1>8, <3>2, TableIs, TableIsNext, SubjectIs
      <3>3. CASE s[2] = "namespace"
        BY <1>1, <3>3, TableIs, TableIsNext
      <3>4. CASE s[2] = "key"
        <4>1. s[3] \in Key /\ s[1] # None
          BY <3>4, SubjectIs
        <4>2. keys'[s[3]] = s[1] <=> keys[s[3]] = s[1]
          BY <1>1, <1>8, <4>1
        <4> QED
          BY <3>4, <4>2, TableIs, TableIsNext
      <3> QED
        BY <1>8, <3>1, <3>2, <3>3, <3>4, SubjectIs
    <2>3. Compared(s)' => Compared(s)
      <3>1. s[1] \in TenantId /\ Live(s[1])' => Live(s[1])
        BY NoneComesToLife DEF Committing
      <3>2. s[2] = "invitation" => (<<s[1], s[3]>> \notin expired' => <<s[1], s[3]>> \notin expired)
        BY <1>1, <1>8
      <3> QED
        BY <1>8, <3>1, <3>2, SubjectIs DEF Compared
    <2> QED
      BY <2>1, <2>2, <2>3 DEF Agrees
  <1> QED
    BY <1>6, <1>7, <1>8

LEMMA MemberAgrees ==
    ASSUME IInv, NEW r \in Request, CommitMember(r), NEW s \in Subject
    PROVE Agrees(r, s)
  <1> DEFINE t == req[r].tenant  u == req[r].user
  <1>1. /\ req[r].pc = "recorded" /\ req[r].op \in {"setRole", "remove"} /\ t \in TenantId /\ u \in User
        /\ req[r].op = "remove" => req[r].role = None
        /\ members' = [members EXCEPT ![t][u] = req[r].role]
        /\ UNCHANGED <<tenants, invitations, expired, namespaces, keys>>
    BY DEF CommitMember, Ends, IInv, Sane, access
  <1>2. s \in Subjects(r) <=> s = <<t, "member", u>>
    BY <1>1 DEF Subjects
  <1>3. Says(r, s) = req[r].role
    BY <1>1 DEF Says
  <1>4. Compared(s)' => Compared(s)
    <2>1. s[1] \in TenantId /\ Live(s[1])' => Live(s[1])
      BY NoneComesToLife DEF Committing
    <2> QED
      BY <1>1, <2>1, SubjectIs DEF Compared
  <1>5. members \in [TenantId -> [User -> Role \cup {None}]]
    BY DEF IInv, TypeOK
  <1>6. CASE s[2] = "member"
    <2>1. Table(s)' = members'[s[1]][s[3]] /\ Table(s) = members[s[1]][s[3]]
      BY <1>6, TableIs, TableIsNext
    <2>2. s \in Subjects(r) <=> s[1] = t /\ s[3] = u
      BY <1>2, <1>6, SubjectIs
    <2> QED
      BY <1>1, <1>3, <1>4, <1>5, <1>6, <2>1, <2>2, SubjectIs DEF Agrees
  <1>7. CASE s[2] # "member"
    <2>1. Table(s)' = Table(s)
      BY <1>1, <1>7, TableIs, TableIsNext, SubjectIs
    <2>2. s \notin Subjects(r)
      BY <1>2, <1>7
    <2> QED
      BY <1>4, <2>1, <2>2 DEF Agrees
  <1> QED
    BY <1>6, <1>7

LEMMA InvitationAgrees ==
    ASSUME IInv, PurgeInv, NEW r \in Request, CommitInvitation(r), NEW s \in Subject
    PROVE Agrees(r, s)
  <1> DEFINE t == req[r].tenant  u == req[r].user
  <1>1. /\ req[r].pc = "recorded" /\ req[r].op = "invite" /\ t \in TenantId /\ u \in User
        /\ UNCHANGED <<tenants, members, namespaces, keys>>
        /\ expired' = expired \ {<<t, u>>}
    BY DEF CommitInvitation, Ends, IInv, Sane, access
  <1>2. invitations' = [invitations EXCEPT ![t] =
                           [i \in User |-> IF i = u THEN req[r].role
                                           ELSE IF i \in req[r].rows THEN None
                                           ELSE invitations[t][i]]]
    BY DEF CommitInvitation
  <1>3. s \in Subjects(r) <=> s = <<t, "invitation", u>>
    BY <1>1 DEF Subjects
  <1>4. Says(r, s) = req[r].role
    BY <1>1 DEF Says
  <1>5. s[1] \in TenantId /\ Live(s[1])' => Live(s[1])
    BY NoneComesToLife DEF Committing
  <1>6. invitations \in [TenantId -> [User -> Role \cup {None}]]
    BY DEF IInv, TypeOK
  <1>7. CASE s[2] = "invitation"
    <2>1. Table(s)' = invitations'[s[1]][s[3]] /\ Table(s) = invitations[s[1]][s[3]]
      BY <1>7, TableIs, TableIsNext
    <2>2. s \in Subjects(r) <=> s[1] = t /\ s[3] = u
      BY <1>3, <1>7, SubjectIs
    <2>3. s[1] \in TenantId /\ s[3] \in User /\ s[1] # Unowned
      BY <1>7, SubjectIs, TeamsAssumption
    <2>4. CASE s[1] = t /\ s[3] = u
      BY <1>1, <1>2, <1>4, <1>6, <2>1, <2>2, <2>4 DEF Agrees
    <2>5. CASE s[1] # t
      <3>1. invitations'[s[1]] = invitations[s[1]]
        BY <1>2, <1>6, <2>3, <2>5
      <3>2. Compared(s)' => Compared(s)
        BY <1>1, <1>5, <2>3, <2>5 DEF Compared
      <3> QED
        BY <2>1, <2>2, <2>5, <3>1, <3>2 DEF Agrees
    <2>6. CASE s[1] = t /\ s[3] # u /\ s[3] \in req[r].rows
      <3>1. req[r].rows \subseteq Purgeable(req[r].tenant) \cup {req[r].user}
        BY <1>1 DEF PurgeInv, PurgesHold, At
      <3>2. <<s[1], s[3]>> \in expired
        BY <2>6, <3>1 DEF Purgeable
      <3>3. <<s[1], s[3]>> \in expired'
        BY <1>1, <2>6, <3>2
      <3> QED
        BY <1>7, <3>3 DEF Compared, Agrees
    <2>7. CASE s[1] = t /\ s[3] # u /\ s[3] \notin req[r].rows
      <3>1. invitations'[s[1]][s[3]] = invitations[s[1]][s[3]]
        BY <1>1, <1>2, <1>6, <2>3, <2>7
      <3>2. Compared(s)' => Compared(s)
        BY <1>1, <1>5, <2>3, <2>7 DEF Compared
      <3> QED
        BY <2>1, <2>2, <2>7, <3>1, <3>2 DEF Agrees
    <2> QED
      BY <2>4, <2>5, <2>6, <2>7
  <1>8. CASE s[2] # "invitation"
    <2>1. Table(s)' = Table(s)
      BY <1>1, <1>8, TableIs, TableIsNext, SubjectIs
    <2>2. s \notin Subjects(r)
      BY <1>3, <1>8
    <2>3. Compared(s)' => Compared(s)
      BY <1>5, <1>8, SubjectIs DEF Compared
    <2> QED
      BY <2>1, <2>2, <2>3 DEF Agrees
  <1> QED
    BY <1>7, <1>8

LEMMA AnswerAgrees ==
    ASSUME IInv, NEW r \in Request, CommitAnswer(r), NEW s \in Subject
    PROVE Agrees(r, s)
  <1> DEFINE t == req[r].tenant  u == req[r].user  role == req[r].role
             joins == role # None
  <1>1. /\ req[r].pc = "recorded" /\ req[r].op \in {"revoke", "decline", "accept"}
        /\ t \in TenantId /\ u \in User
        /\ joins => req[r].op = "accept"
        /\ UNCHANGED <<tenants, namespaces, keys>>
        /\ expired' = expired \ {<<t, u>>}
    BY DEF CommitAnswer, Ends, IInv, Sane, access
  <1>2. /\ invitations' = [invitations EXCEPT ![t][u] = None]
        /\ members' = IF joins THEN [members EXCEPT ![t][u] = role] ELSE members
    BY DEF CommitAnswer
  <1>3. s \in Subjects(r) <=> s = <<t, "invitation", u>> \/ (joins /\ s = <<t, "member", u>>)
    BY <1>1 DEF Subjects
  <1>4. /\ s[2] = "invitation" => Says(r, s) = None
        /\ s[2] = "member" /\ joins => Says(r, s) = role
    BY <1>1 DEF Says
  <1>5. s[1] \in TenantId /\ Live(s[1])' => Live(s[1])
    BY NoneComesToLife DEF Committing
  <1>6. /\ members \in [TenantId -> [User -> Role \cup {None}]]
        /\ invitations \in [TenantId -> [User -> Role \cup {None}]]
    BY DEF IInv, TypeOK
  <1> HIDE DEF joins
  <1>7. CASE s[2] = "invitation"
    <2>1. Table(s)' = invitations'[s[1]][s[3]] /\ Table(s) = invitations[s[1]][s[3]]
      BY <1>7, TableIs, TableIsNext
    <2>2. s \in Subjects(r) <=> s[1] = t /\ s[3] = u
      BY <1>3, <1>7, SubjectIs
    <2>3. s[1] \in TenantId /\ s[3] \in User /\ s[1] # Unowned
      BY <1>7, SubjectIs, TeamsAssumption
    <2>4. CASE s[1] = t /\ s[3] = u
      BY <1>1, <1>2, <1>4, <1>6, <1>7, <2>1, <2>2, <2>4 DEF Agrees
    <2>5. CASE ~(s[1] = t /\ s[3] = u)
      <3>1. invitations'[s[1]][s[3]] = invitations[s[1]][s[3]]
        BY <1>2, <1>6, <2>3, <2>5
      <3>2. Compared(s)' => Compared(s)
        BY <1>1, <1>5, <2>3, <2>5 DEF Compared
      <3> QED
        BY <2>1, <2>2, <2>5, <3>1, <3>2 DEF Agrees
    <2> QED
      BY <2>4, <2>5
  <1>8. s[2] # "invitation" => (Compared(s)' => Compared(s))
    BY <1>5, SubjectIs DEF Compared
  <1>9. CASE s[2] = "member"
    <2>1. Table(s)' = members'[s[1]][s[3]] /\ Table(s) = members[s[1]][s[3]]
      BY <1>9, TableIs, TableIsNext
    <2>2. s \in Subjects(r) <=> joins /\ s[1] = t /\ s[3] = u
      BY <1>3, <1>9, SubjectIs
    <2>3. s[1] \in TenantId /\ s[3] \in User
      BY <1>9, SubjectIs
    <2> QED
      BY <1>1, <1>2, <1>4, <1>6, <1>8, <1>9, <2>1, <2>2, <2>3 DEF Agrees
  <1>10. CASE s[2] \notin {"invitation", "member"}
    <2>1. Table(s)' = Table(s)
      BY <1>1, <1>10, TableIs, TableIsNext, SubjectIs
    <2>2. s \notin Subjects(r)
      BY <1>3, <1>10
    <2> QED
      BY <1>8, <1>10, <2>1, <2>2 DEF Agrees
  <1> QED
    BY <1>7, <1>9, <1>10

LEMMA NamespaceAgrees ==
    ASSUME IInv, HeldInv, NEW r \in Request, CommitNamespace(r), NEW s \in Subject
    PROVE Agrees(r, s)
  <1> DEFINE t == req[r].tenant  n == req[r].name  creates == req[r].op = "createNamespace"
             owner == namespaces[n]
  <1>1. /\ req[r].pc = "recorded" /\ req[r].op \in {"createNamespace", "deleteNamespace"}
        /\ t \in TenantId \cup {Unowned} /\ n \in Namespace
        /\ namespaces' = [namespaces EXCEPT ![n] = IF creates THEN t ELSE None]
        /\ UNCHANGED <<tenants, members, invitations, expired, keys>>
    BY DEF CommitNamespace, Ends, IInv, Sane, people, access
  <1>2. creates => owner = None
    BY <1>1 DEF HeldInv, NamesHeld, At
  <1>3. s \in Subjects(r) <=> s = <<IF creates THEN t ELSE owner, "namespace", n>>
    BY <1>1 DEF Subjects
  <1>4. Says(r, s) = IF creates THEN t ELSE None
    BY <1>1 DEF Says
  <1>5. Compared(s)' => Compared(s)
    <2>1. s[1] \in TenantId /\ Live(s[1])' => Live(s[1])
      BY NoneComesToLife DEF Committing
    <2> QED
      BY <1>1, <2>1, SubjectIs DEF Compared
  <1>6. namespaces \in [Namespace -> TenantId \cup {Unowned, None}]
    BY DEF IInv, TypeOK
  <1>7. CASE s[2] = "namespace"
    <2>1. /\ Table(s)' = IF namespaces'[s[3]] = s[1] THEN s[1] ELSE None
          /\ Table(s) = IF namespaces[s[3]] = s[1] THEN s[1] ELSE None
      BY <1>7, TableIs, TableIsNext
    <2>2. s \in Subjects(r) <=> s[1] = (IF creates THEN t ELSE owner) /\ s[3] = n
      BY <1>3, <1>7, SubjectIs
    <2>3. s[3] \in Namespace /\ s[1] # None
      BY <1>7, SubjectIs
    <2>4. CASE creates
      BY <1>1, <1>2, <1>4, <1>5, <1>6, <2>1, <2>2, <2>3, <2>4 DEF Agrees
    <2>5. CASE ~creates
      BY <1>1, <1>4, <1>5, <1>6, <2>1, <2>2, <2>3, <2>5 DEF Agrees
    <2> QED
      BY <2>4, <2>5
  <1>8. CASE s[2] # "namespace"
    <2>1. Table(s)' = Table(s)
      BY <1>1, <1>8, TableIs, TableIsNext, SubjectIs
    <2>2. s \notin Subjects(r)
      BY <1>3, <1>8
    <2> QED
      BY <1>5, <2>1, <2>2 DEF Agrees
  <1> QED
    BY <1>7, <1>8

LEMMA KeyAgrees ==
    ASSUME IInv, HeldInv, NEW r \in Request, CommitKey(r), NEW s \in Subject
    PROVE Agrees(r, s)
  <1> DEFINE t == req[r].tenant  k == req[r].key  creates == req[r].op = "createKey"
  <1>1. /\ req[r].pc = "recorded" /\ req[r].op \in {"createKey", "deleteKey"}
        /\ t \in TenantId /\ k \in Key
        /\ keys' = [keys EXCEPT ![k] = IF creates THEN t ELSE None]
        /\ UNCHANGED <<tenants, members, invitations, expired, namespaces>>
    BY DEF CommitKey, Ends, IInv, Sane, people, access
  <1>2. IF creates THEN keys[k] = None ELSE keys[k] = t
    BY <1>1 DEF HeldInv, KeysHeld, At
  <1>3. s \in Subjects(r) <=> s = <<t, "key", k>>
    BY <1>1 DEF Subjects
  <1>4. Says(r, s) = IF creates THEN k ELSE None
    BY <1>1 DEF Says
  <1>5. Compared(s)' => Compared(s)
    <2>1. s[1] \in TenantId /\ Live(s[1])' => Live(s[1])
      BY NoneComesToLife DEF Committing
    <2> QED
      BY <1>1, <2>1, SubjectIs DEF Compared
  <1>6. keys \in [Key -> TenantId \cup {None}]
    BY DEF IInv, TypeOK
  <1>7. CASE s[2] = "key"
    <2>1. /\ Table(s)' = IF keys'[s[3]] = s[1] THEN s[3] ELSE None
          /\ Table(s) = IF keys[s[3]] = s[1] THEN s[3] ELSE None
      BY <1>7, TableIs, TableIsNext
    <2>2. s \in Subjects(r) <=> s[1] = t /\ s[3] = k
      BY <1>3, <1>7, SubjectIs
    <2>3. s[3] \in Key /\ s[1] # None
      BY <1>7, SubjectIs
    <2>4. CASE creates
      BY <1>1, <1>2, <1>4, <1>5, <1>6, <2>1, <2>2, <2>3, <2>4 DEF Agrees
    <2>5. CASE ~creates
      BY <1>1, <1>2, <1>4, <1>5, <1>6, <2>1, <2>2, <2>3, <2>5 DEF Agrees
    <2> QED
      BY <2>4, <2>5
  <1>8. CASE s[2] # "key"
    <2>1. Table(s)' = Table(s)
      BY <1>1, <1>8, TableIs, TableIsNext, SubjectIs
    <2>2. s \notin Subjects(r)
      BY <1>3, <1>8
    <2> QED
      BY <1>5, <2>1, <2>2 DEF Agrees
  <1> QED
    BY <1>7, <1>8

\* A commit makes the tables what the logs say.
LEMMA CommitAgrees ==
    ASSUME IInv, PurgeInv, HeldInv, LogsFit, LogsAgree, NEW r \in Request, Committing(r)
    PROVE LogsAgree'
  <1> SUFFICES ASSUME NEW s \in Subject, Compared(s)'
               PROVE Replay(s)' = Table(s)'
    BY DEF LogsAgree
  <1>1. Agrees(r, s)
    BY TenantAgrees, DeletionAgrees, MemberAgrees, InvitationAgrees, AnswerAgrees, NamespaceAgrees,
       KeyAgrees DEF Committing
  <1>2. IF s \in Subjects(r) THEN Replay(s)' = Says(r, s) ELSE Replay(s)' = Replay(s)
    BY SettledLogs
  <1> QED
    BY <1>1, <1>2 DEF Agrees, LogsAgree

\* A step that changes no table brings no team to life but the one it creates,
\* whose id is new.
LEMMA ActingAgrees ==
    ASSUME IInv, LogsAgree, NEW r \in Request, Acting(r), \A s \in Subject : Replay(s)' = Replay(s)
    PROVE LogsAgree'
  <1>1. /\ UNCHANGED <<tenants, members, invitations, expired, namespaces, keys>>
        /\ drawn \subseteq drawn'
        /\ \A q \in Others(r) : req'[q] = req[q] /\ q \in Request
        /\ req'[r].op = "createTenant" /\ req'[r].pc = "recorded" => req'[r].tenant \notin drawn
    BY ActingUpdates DEF Acts, Untouched, people, access
  <1>2. ASSUME NEW t, Live(t)' PROVE Live(t)
    <2>1. CASE \E q \in Request : At(q, "recorded", "createTenant")' /\ req'[q].tenant = t
      BY <1>1, <2>1 DEF Live, At, Others
    <2> QED
      BY <1>1, <1>2, <2>1 DEF Live
  <1> SUFFICES ASSUME NEW s \in Subject, Compared(s)'
               PROVE Replay(s)' = Table(s)'
    BY DEF LogsAgree
  <1>3. Compared(s)
    <2>1. PICK t : t = s[1]
      OBVIOUS
    <2>2. Live(t)' => Live(t)
      BY <1>2
    <2> QED
      BY <1>1, <2>1, <2>2 DEF Compared
  <1>4. Table(s)' = Table(s)
    BY <1>1, TableIs, TableIsNext, SubjectIs
  <1> QED
    BY <1>3, <1>4 DEF LogsAgree

\* Ids that were not drawn have no log.
LEMMA EmptyLogsStay ==
    ASSUME IInv, HeldInv, LogsStartEmpty, IInv', NEW r \in Request, Acting(r) \/ Committing(r)
    PROVE LogsStartEmpty'
  <1> SUFFICES ASSUME NEW t \in TenantId, t \notin drawn'
               PROVE audit'[<<t, "tenant", None>>] = <<>>
    BY DEF LogsStartEmpty
  <1> DEFINE s == <<t, "tenant", None>>
  <1>1. s \in Subject
    BY DEF Subject
  <1>2. drawn \subseteq drawn'
    BY ActingUpdates, CommitHands DEF Acts
  <1>3. audit[s] = <<>>
    BY <1>2 DEF LogsStartEmpty
  <1>4. Clean(<<>>, None)
    BY DEF Clean
  <1>5. Settled(<<>>, r) = <<>> /\ Dropped(<<>>, r) = <<>>
    BY <1>4, CleanLog
  <1>6. CASE Committing(r)
    BY <1>1, <1>3, <1>5, <1>6, CommitHands DEF Ends
  <1>7. CASE Acting(r)
    <2>1. Abandon(r) => audit'[s] = <<>>
      BY <1>1, <1>3, <1>5 DEF Abandon
    <2>2. Recorded(r) => audit'[s] = <<>>
      <3>1. s \notin Subjects(r)'
        <4>1. SUFFICES ASSUME s \in Subjects(r)' PROVE FALSE
          OBVIOUS
        <4>2. req'[r].op \in {"createTenant", "deleteTenant"} /\ req'[r].pc = "recorded" /\ req'[r].tenant = t
          BY <4>1 DEF Subjects
        <4> QED
          BY <4>2 DEF IInv, TenantsAreDrawn, HeldTeamsExist, Locks, At
      <3> QED
        BY <1>1, <1>3, <3>1 DEF Recorded
    <2>3. Quiet(r) => audit'[s] = <<>>
      BY <1>3 DEF Quiet
    <2>4. OffersHeld
      BY DEF HeldInv
    <2> QED
      BY <1>7, <2>1, <2>2, <2>3, <2>4, ActingRecords
  <1> QED
    BY <1>6, <1>7

----------------------------------------------------------------------------
(* The invariant. *)

\* The invariant of the log is inductive.
LEMMA InitAuditInv == Init => AuditInv
  <1> SUFFICES ASSUME Init PROVE AuditInv
    OBVIOUS
  <1>1. \A q \in Request : req[q] = Idle
    BY DEF Init
  <1>2. Idle.pc = "idle" /\ Idle.op = None /\ Idle.rows = {}
    BY DEF Idle
  <1>3. PurgeInv
    BY <1>1, <1>2 DEF PurgeInv, PurgesHold, PurgesExclude, RowsHeld, At
  <1>4. HeldInv
    BY <1>1, <1>2 DEF Init, HeldInv, NamesHeld, KeysHeld, OffersHeld, HoldsName, HoldsKey, At, Others
  <1>5. DOMAIN audit = Subject
    BY DEF Init
  <1>6. ASSUME NEW s \in Subject PROVE LogFits(s) /\ Replay(s) = None /\ Table(s) = None
    <2>1. audit[s] = IF s[2] = "tenant" THEN <<>> ELSE <<[to |-> None, by |-> None]>>
      BY DEF Init
    <2>2. Clean(audit[s], None)
      BY <2>1 DEF Clean
    <2>3. Replay(s) = None
      BY <2>2, CleanTold DEF Replay
    <2>4. \A q \in Request : s \notin Subjects(q)
      BY <1>1, <1>2, NothingElseRecorded
    <2>5. Table(s) = None
      BY TableIs, SubjectIs DEF Init
    <2> QED
      BY <2>2, <2>3, <2>4, <2>5 DEF LogFits
  <1>7. LogsStartEmpty
    <2>1. ASSUME NEW t \in TenantId PROVE audit[<<t, "tenant", None>>] = <<>>
      <3>1. <<t, "tenant", None>> \in Subject /\ <<t, "tenant", None>>[2] = "tenant"
        BY DEF Subject
      <3> QED
        BY <3>1 DEF Init
    <2> QED
      BY <2>1 DEF LogsStartEmpty
  <1> QED
    BY <1>3, <1>4, <1>5, <1>6, <1>7 DEF AuditInv, LogsFit, LogsAgree

LEMMA AuditInvKept == ASSUME IInv, AuditInv, IInv', [Next]_vars PROVE AuditInv'
  <1> USE DEF AuditInv
  <1>1. PurgeInv'
    BY PurgeInvKept
  <1>2. ASSUME NEW r \in Request, Acting(r) PROVE AuditInv'
    <2>1. HeldInv' /\ LogsStartEmpty'
      BY <1>2, ActingHolds, EmptyLogsStay
    <2>2. LogsFit' /\ \A s \in Subject : Replay(s)' = Replay(s)
      <3>1. OffersHeld
        BY DEF HeldInv
      <3>2. Quiet(r) \/ Recorded(r) \/ Abandon(r)
        BY <1>2, <3>1, ActingRecords
      <3> QED
        BY <1>2, <2>1, <3>2, QuietLogs, RecordedLogs, DroppedLogs
    <2>3. LogsAgree'
      BY <1>2, <2>2, ActingAgrees
    <2> QED
      BY <1>1, <2>1, <2>2, <2>3
  <1>3. ASSUME NEW r \in Request, Committing(r) PROVE AuditInv'
    BY <1>1, <1>3, CommitHolds, EmptyLogsStay, SettledLogs, CommitAgrees
  <1>4. ASSUME UNCHANGED <<tenants, members, invitations, namespaces, access, drawn, audit, req>>,
               expired \subseteq expired'
        PROVE AuditInv'
    <2>1. HeldInv'
      BY <1>4 DEF HeldInv, NamesHeld, KeysHeld, OffersHeld, HoldsName, HoldsKey, At, access
    <2>2. ASSUME NEW s \in Subject PROVE LogFits(s)' /\ Replay(s)' = Replay(s)
      <3>1. LogFits(s) /\ audit'[s] = audit[s]
        BY <1>4 DEF LogsFit
      <3>2. \A q \in Request : Subjects(q)' = Subjects(q) /\ Event(q, s)' = Event(q, s)
        BY <1>4 DEF Subjects, Event, Says
      <3> QED
        BY <3>1, <3>2, LogStays
    <2>3. LogsFit'
      BY <1>4, <2>2 DEF LogsFit
    <2>4. LogsAgree'
      <3>1. ASSUME NEW s \in Subject, Compared(s)' PROVE Replay(s)' = Table(s)'
        <4>1. Compared(s)
          BY <1>4, <3>1 DEF Compared, Live, At
        <4>2. Table(s)' = Table(s)
          BY <1>4, TableIs, TableIsNext, SubjectIs DEF access
        <4> QED
          BY <2>2, <4>1, <4>2 DEF LogsAgree
      <3> QED
        BY <3>1 DEF LogsAgree
    <2>5. LogsStartEmpty'
      BY <1>4 DEF LogsStartEmpty
    <2> QED
      BY <1>1, <2>1, <2>3, <2>4, <2>5
  <1>5. ASSUME NEW t \in TenantId, NEW u \in User, Expire(t, u) PROVE AuditInv'
    BY <1>4, <1>5 DEF Expire
  <1>6. CASE UNCHANGED vars
    BY <1>4, <1>6 DEF vars, people
  <1> HIDE DEF AuditInv
  <1> QED
    BY <1>2, <1>3, <1>5, <1>6 DEF Next, Acting

\* In every reachable state the log of each subject is its newest committed
\* event and at most one that waits, and what is committed is what the tables
\* say (audit.go: RecordAudit, in the transaction of the change).
THEOREM AuditInvariantHolds == Spec => [](IInv /\ AuditInv)
  <1>1. IInv /\ [Next]_vars => IInv'
    BY StepIInv
  <1> QED
    BY <1>1, InitIInv, InitAuditInv, AuditInvKept, PTL DEF Spec

\* Logs that agree replay to the tables.
LEMMA LogsReplay == IInv /\ AuditInv => AuditReplays
  <1> SUFFICES ASSUME IInv, AuditInv PROVE AuditReplays
    OBVIOUS
  <1>1. \A s \in Subject : Compared(s) => Replay(s) = Table(s)
    BY DEF AuditInv, LogsAgree
  <1>2. ASSUME NEW n \in Namespace, NEW t \in TenantId \cup {Unowned}, t = Unowned \/ tenants[t] # None
        PROVE Replay(<<t, "namespace", n>>) = IF namespaces[n] = t THEN t ELSE None
    <2> DEFINE s == <<t, "namespace", n>>
    <2>1. s \in Subject /\ s[1] = t /\ s[2] = "namespace" /\ s[3] = n
      BY DEF Subject
    <2> HIDE DEF s
    <2>2. Compared(s)
      BY <1>2, <2>1 DEF Compared, Live
    <2> QED
      BY <1>1, <2>1, <2>2, TableIs DEF s
  <1>3. ASSUME NEW t \in TenantId PROVE Replay(<<t, "tenant", None>>) = tenants[t]
    <2> DEFINE s == <<t, "tenant", None>>
    <2>1. s \in Subject /\ s[1] = t /\ s[2] = "tenant"
      BY DEF Subject
    <2> HIDE DEF s
    <2>2. Compared(s)
      BY <2>1 DEF Compared
    <2> QED
      BY <1>1, <2>1, <2>2, TableIs DEF s
  <1>4. ASSUME NEW t \in TenantId, tenants[t] # None, NEW u \in User
        PROVE Replay(<<t, "member", u>>) = members[t][u]
    <2> DEFINE s == <<t, "member", u>>
    <2>1. s \in Subject /\ s[1] = t /\ s[2] = "member" /\ s[3] = u
      BY DEF Subject
    <2> HIDE DEF s
    <2>2. Compared(s)
      BY <1>4, <2>1 DEF Compared, Live
    <2> QED
      BY <1>1, <2>1, <2>2, TableIs DEF s
  <1>5. ASSUME NEW t \in TenantId, tenants[t] # None, NEW u \in User, <<t, u>> \notin expired
        PROVE Replay(<<t, "invitation", u>>) = invitations[t][u]
    <2> DEFINE s == <<t, "invitation", u>>
    <2>1. s \in Subject /\ s[1] = t /\ s[2] = "invitation" /\ s[3] = u
      BY DEF Subject
    <2> HIDE DEF s
    <2>2. Compared(s)
      BY <1>5, <2>1 DEF Compared, Live
    <2> QED
      BY <1>1, <2>1, <2>2, TableIs DEF s
  <1>6. ASSUME NEW t \in TenantId, tenants[t] # None, NEW k \in Key
        PROVE Replay(<<t, "key", k>>) = IF keys[k] = t THEN k ELSE None
    <2> DEFINE s == <<t, "key", k>>
    <2>1. s \in Subject /\ s[1] = t /\ s[2] = "key" /\ s[3] = k
      BY DEF Subject
    <2> HIDE DEF s
    <2>2. Compared(s)
      BY <1>6, <2>1 DEF Compared, Live
    <2> QED
      BY <1>1, <2>1, <2>2, TableIs DEF s
  <1> QED
    BY <1>2, <1>3, <1>4, <1>5, <1>6 DEF AuditReplays

\* What the log says last of a team, its members, invitations, namespaces and
\* keys is what the tables say of them, whatever the order in which the
\* transactions that took its ids commit.
THEOREM AuditStaysTrue == Spec => []AuditReplays
  BY AuditInvariantHolds, LogsReplay, PTL

----------------------------------------------------------------------------
(* Deletions. *)

\* A step, as DeletionIsRecordedLast has it.
RecordedLast ==
    \A t \in TenantId, s \in Subject :
       s[1] = t /\ Len(audit'[s]) > Len(audit[s]) =>
          \A i \in DOMAIN audit[<<t, "tenant", None>>] :
             audit[<<t, "tenant", None>>][i].to # None

\* How many events a log holds.
LEMMA CleanLength == ASSUME NEW es, NEW v, Clean(es, v) PROVE Len(es) \in {0, 1}
  BY DEF Clean

LEMMA PendingLength == ASSUME NEW es, NEW v, NEW e, Pending(es, v, e) PROVE Len(es) \in {1, 2}
  <1>1. CASE es = <<[to |-> v, by |-> None], e>>
    <2> DEFINE d == [to |-> v, by |-> None]
    <2> HIDE DEF d
    <2>1. Len(<<d, e>>) = 2
      OBVIOUS
    <2> QED
      BY <1>1, <2>1 DEF d
  <1>2. CASE es = <<e>>
    BY <1>2
  <1> QED
    BY <1>1, <1>2 DEF Pending

\* Neither a commit nor a rollback makes a log longer.
LEMMA EndsShorten ==
    ASSUME IInv, AuditInv, NEW r \in Request, NEW s \in Subject
    PROVE Len(Settled(audit[s], r)) <= Len(audit[s]) /\ Len(Dropped(audit[s], r)) <= Len(audit[s])
  <1>1. LogFits(s)
    BY DEF AuditInv, LogsFit
  <1>2. CASE Clean(audit[s], Replay(s))
    <2>1. Settled(audit[s], r) = audit[s] /\ Dropped(audit[s], r) = audit[s]
      BY <1>2, CleanLog
    <2> QED
      BY <1>2, <2>1, CleanLength
  <1>3. CASE \E q \in Request : s \in Subjects(q) /\ Pending(audit[s], Replay(s), Event(q, s))
    <2>1. PICK q \in Request : Pending(audit[s], Replay(s), Event(q, s))
      BY <1>3
    <2>2. Len(audit[s]) \in {1, 2}
      BY <2>1, PendingLength
    <2> DEFINE w == Says(q, s)
    <2>3. Pending(audit[s], Replay(s), [to |-> w, by |-> q])
      BY <2>1 DEF Event
    <2> HIDE DEF w
    <2>4. CASE r = q
      <3>1. Clean(Settled(audit[s], r), w) /\ Clean(Dropped(audit[s], r), Replay(s))
        BY <2>3, <2>4, PendingLog
      <3>2. Len(Settled(audit[s], r)) \in {0, 1}
        BY <3>1, CleanLength
      <3>3. Len(Dropped(audit[s], r)) \in {0, 1}
        BY <3>1, CleanLength
      <3>4. \A m \in {0, 1}, n \in {1, 2} : m <= n
        OBVIOUS
      <3> QED
        BY <2>2, <3>2, <3>3, <3>4
    <2>5. CASE r # q
      <3>1. Settled(audit[s], r) = audit[s] /\ Dropped(audit[s], r) = audit[s]
        BY <2>3, <2>5, PendingLog
      <3>2. PICK n \in {1, 2} : Len(audit[s]) = n
        BY <2>2
      <3>3. Len(Settled(audit[s], r)) = n /\ Len(Dropped(audit[s], r)) = n /\ n <= n
        BY <3>1, <3>2
      <3> QED
        BY <3>2, <3>3
    <2> QED
      BY <2>4, <2>5
  <1> QED
    BY <1>1, <1>2, <1>3 DEF LogFits

\* Who records in a team's log creates the team, or finds it and keeps others
\* from deleting it.
LEMMA RecordedTeams ==
    ASSUME IInv, AuditInv, IInv', AuditInv', NEW r \in Request, Acting(r), Recorded(r),
           NEW t \in TenantId, NEW s \in Subjects(r)', s[1] = t, req'[r].op # "createTenant"
    PROVE /\ tenants[t] # None
          /\ \A q \in Others(r) : ~(At(q, "recorded", "deleteTenant") /\ req[q].tenant = t)
  <1>1. /\ req'[r].pc = "recorded" /\ Starts(r) /\ Sane(req'[r]) /\ t # Unowned /\ t # None
        /\ Sane(req[r])'
    BY RecordingStarts, TeamsAssumption DEF Recorded, IInv
  <1>2. /\ UNCHANGED <<tenants, members, invitations, namespaces, keys>>
        /\ \A q \in Others(r) : req'[q] = req[q] /\ q \in Request /\ q # r /\ r \in Others(q)
    BY ActingUpdates DEF Acts, Untouched, people, access, Others
  <1>3. \/ req'[r].op \in {"deleteTenant", "setRole", "remove", "accept", "invite", "revoke", "decline",
                           "createNamespace", "createKey", "deleteKey"} /\ req'[r].tenant = t
        \/ req'[r].op = "deleteNamespace" /\ namespaces[req'[r].name] = t
    BY <1>2 DEF Subjects
  <1>4. CASE req'[r].op \in {"deleteTenant", "setRole", "remove"}
    <2>1. Locks(r, t)'
      BY <1>1, <1>3, <1>4 DEF Locks
    <2>2. tenants[t] # None
      BY <1>2, <2>1 DEF IInv, HeldTeamsExist
    <2>3. \A q \in Others(r) : ~Locks(q, t)'
      BY <2>1 DEF IInv, Exclusive, Others
    <2> QED
      BY <1>2, <2>2, <2>3 DEF Locks, At
  <1>5. CASE req'[r].op \in {"accept", "invite", "createNamespace", "createKey"}
    <2>1. Shares(r, t)'
      BY <1>1, <1>3, <1>5 DEF Shares
    <2>2. tenants[t] # None
      BY <1>2, <2>1 DEF IInv, HeldTeamsExist
    <2>3. \A q \in Others(r) : ~Deletes(q, t)'
      BY <1>2, <2>1 DEF IInv, Exclusive, Others
    <2> QED
      BY <1>2, <2>2, <2>3 DEF Deletes, Locks, At
  <1>6. CASE req'[r].op \in {"revoke", "decline"}
    <2> DEFINE u == req'[r].user
    <2>1. u \in User /\ u \in req'[r].rows /\ req'[r].tenant = t
      BY <1>1, <1>3, <1>6 DEF Sane
    <2>2. invitations[t][u] # None
      BY <1>1, <1>6, <2>1 DEF Starts
    <2>3. tenants[t] # None
      BY <2>1, <2>2 DEF IInv, NothingOutlivesItsTeam
    <2>4. ASSUME NEW q \in Others(r), At(q, "recorded", "deleteTenant"), req[q].tenant = t
          PROVE FALSE
      <3>1. u \in req[q].rows
        BY <1>2, <2>1, <2>2, <2>4 DEF IInv, Grounded, At
      <3>2. \A x \in User : ~(HoldsInvitation(r, t, x)' /\ HoldsInvitation(q, t, x)')
        BY <2>4 DEF IInv, Exclusive
      <3> QED
        BY <1>2, <2>1, <2>4, <3>1, <3>2 DEF HoldsInvitation
    <2> QED
      BY <2>3, <2>4
  <1>7. CASE req'[r].op = "deleteKey"
    <2>1. /\ keys[req'[r].key] = t /\ req'[r].key \in Key
          /\ \A q \in Others(r) : ~HoldsKey(q, req'[r].key)
      BY <1>1, <1>3, <1>7 DEF Starts, Sane
    <2>2. tenants[t] # None
      BY <2>1 DEF IInv, NothingOutlivesItsTeam
    <2> QED
      BY <2>1, <2>2 DEF HoldsKey
  <1>8. CASE req'[r].op = "deleteNamespace"
    <2>1. namespaces[req'[r].name] = t /\ req'[r].name \in Namespace
      BY <1>1, <1>3, <1>8 DEF Sane
    <2>2. tenants[t] # None
      BY <2>1 DEF IInv, NothingOutlivesItsTeam
    <2> QED
      BY <1>2, <2>1, <2>2 DEF IInv, Grounded, At
  <1> QED
    BY <1>3, <1>4, <1>5, <1>6, <1>7, <1>8

LEMMA StepRecordedLast == ASSUME IInv, AuditInv, IInv', AuditInv', [Next]_vars PROVE RecordedLast
  <1> SUFFICES ASSUME NEW t \in TenantId, NEW s \in Subject, s[1] = t, Len(audit'[s]) > Len(audit[s]),
                      NEW i \in DOMAIN audit[<<t, "tenant", None>>]
               PROVE audit[<<t, "tenant", None>>][i].to # None
    BY DEF RecordedLast
  <1> DEFINE d == <<t, "tenant", None>>
  <1>1. d \in Subject /\ d[1] = t /\ d[2] = "tenant"
    BY DEF Subject
  <1>2. Len(audit[s]) \in Nat
    <2>1. LogFits(s)
      BY DEF AuditInv, LogsFit
    <2> QED
      BY <2>1, CleanLength, PendingLength DEF LogFits
  <1>3. audit'[s] # audit[s]
    BY <1>2
  <1>4. PICK r \in Request : Acting(r) \/ Committing(r)
    BY <1>3 DEF Next, Acting, Expire, vars
  <1>5. ~Committing(r) /\ ~Abandon(r)
    <2>1. audit'[s] = Settled(audit[s], r) \/ audit'[s] = Dropped(audit[s], r) => FALSE
      <3>1. /\ Len(Settled(audit[s], r)) <= Len(audit[s])
            /\ Len(Dropped(audit[s], r)) <= Len(audit[s])
        BY EndsShorten
      <3>2. ~(Len(audit'[s]) <= Len(audit[s]))
        <4>1. LogFits(s)'
          BY DEF AuditInv, LogsFit
        <4>2. Len(audit'[s]) \in Nat
          BY <4>1, CleanLength, PendingLength DEF LogFits
        <4> QED
          BY <1>2, <4>2
      <3> QED
        BY <3>1, <3>2
    <2> QED
      BY <2>1, CommitHands DEF Ends, Abandon
  <1>6. Recorded(r)
    <2>1. OffersHeld
      BY DEF AuditInv, HeldInv
    <2>2. ~Quiet(r)
      BY <1>3 DEF Quiet
    <2> QED
      BY <1>4, <1>5, <2>1, <2>2, ActingRecords
  <1>7. s \in Subjects(r)'
    BY <1>3, <1>6 DEF Recorded
  <1>8. CASE req'[r].op = "createTenant"
    <2>1. req'[r].tenant = t
      BY <1>7, <1>8 DEF Subjects
    <2>2. t \notin drawn
      BY <1>4, <1>5, <1>6, <1>8, <2>1, ActingUpdates DEF Acts, Recorded
    <2>3. audit[d] = <<>>
      BY <2>2 DEF AuditInv, LogsStartEmpty
    <2> QED
      BY <2>3
  <1>9. CASE req'[r].op # "createTenant"
    <2>1. /\ tenants[t] # None
          /\ \A q \in Others(r) : ~(At(q, "recorded", "deleteTenant") /\ req[q].tenant = t)
      BY <1>4, <1>5, <1>6, <1>7, <1>9, RecordedTeams
    <2>2. ASSUME NEW q \in Request PROVE d \notin Subjects(q)
      <3>1. SUFFICES ASSUME d \in Subjects(q) PROVE FALSE
        OBVIOUS
      <3>2. q # r
        BY <1>6, <3>1, NothingElseRecorded DEF Recorded
      <3>3. /\ req[q].pc = "recorded" /\ req[q].op \in {"createTenant", "deleteTenant"}
            /\ req[q].tenant = t
        BY <1>1, <3>1 DEF Subjects
      <3>4. req[q].op # "createTenant"
        BY <2>1, <3>3 DEF IInv, Grounded
      <3> QED
        BY <2>1, <3>2, <3>3, <3>4 DEF At, Others
    <2>3. Clean(audit[d], Replay(d))
      BY <1>1, <2>2 DEF AuditInv, LogsFit, LogFits
    <2>4. Replay(d) = tenants[t]
      <3>1. Compared(d) => Replay(d) = Table(d)
        BY <1>1 DEF AuditInv, LogsAgree
      <3>2. Table(d) = tenants[t]
        BY <1>1, TableIs
      <3>3. Compared(d)
        BY <1>1 DEF Compared
      <3> QED
        BY <3>1, <3>2, <3>3
    <2> QED
      BY <2>1, <2>3, <2>4 DEF Clean
  <1> QED
    BY <1>8, <1>9

\* A team's deletion is the last event of its log: whoever records in it holds
\* the team, or what the deletion takes with it (tenant.go: DeleteTenant).
THEOREM DeletionStaysLast == Spec => DeletionIsRecordedLast
  <1>1. IInv /\ AuditInv /\ [Next]_vars /\ IInv' /\ AuditInv' => [RecordedLast]_vars
    BY StepRecordedLast
  <1> QED
    BY <1>1, AuditInvariantHolds, PTL DEF Spec, DeletionIsRecordedLast, RecordedLast

=============================================================================
