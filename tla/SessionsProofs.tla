--------------------------- MODULE SessionsProofs ----------------------------
(***************************************************************************)
(* Proofs of Sessions, for any number of browsers, people, requests and    *)
(* tokens: sign-ins that race leave each identity one row of users, and a  *)
(* session that its user ended is not there again.                         *)
(***************************************************************************)
EXTENDS Sessions, TLAPS

----------------------------------------------------------------------------
(* What a request knows. *)

\* What each step of a request has in hand.
LEMMA RequestsKnow ==
    ASSUME RequestsTyped, NEW r \in Request
    PROVE /\ request[r].pc \in {"look", "insert", "create"} => request[r].browser \in Browser
          /\ request[r].pc \in {"look", "insert", "create", "signedIn", "check", "act"}
                => request[r].identity \in Identity
          /\ request[r].pc \in {"create", "act"} => request[r].user \in UserIds
          /\ request[r].pc \in {"signedIn", "check", "act"} => request[r].token \in Token
          /\ request[r].pc = "signedIn" => request[r].browser \in Browser
          /\ request[r].pc \in {"check", "act"} => request[r].what \in Asked
  <1>1. request[r] \in RequestState
    BY DEF RequestsTyped
  <1> QED
    BY <1>1 DEF RequestState, Idle

\* A request that goes on, begins or ends is as typed as its new state, and
\* as right about its user.
LEMMA RequestGoes ==
    ASSUME RequestsTyped, UsersAreTheirs, NEW r \in Request, NEW state \in RequestState,
           Goes(r, state), users' = users,
           state.pc \in {"create", "act"} => users[state.user] = state.identity
    PROVE RequestsTyped' /\ UsersAreTheirs'
  <1>1. /\ request'[r] = state
        /\ \A q \in Request \ {r} : request'[q] = request[q]
    BY DEF RequestsTyped, Goes
  <1>2. RequestsTyped'
    BY DEF RequestsTyped, Goes
  <1>3. UsersAreTheirs'
    BY <1>1 DEF UsersAreTheirs
  <1> QED
    BY <1>2, <1>3

LEMMA RequestEnds ==
    ASSUME RequestsTyped, UsersAreTheirs, NEW r \in Request, End(r), users' = users
    PROVE RequestsTyped' /\ UsersAreTheirs'
  <1>1. Idle \in RequestState /\ Idle.pc = "idle"
    BY DEF RequestState, Idle
  <1>2. Goes(r, Idle)
    BY DEF End, Goes
  <1> QED
    BY <1>1, <1>2, RequestGoes

\* Nothing that a request relies on changes if it does not, nor the users.
LEMMA RequestsStay ==
    ASSUME RequestsTyped, UsersAreTheirs, UNCHANGED <<request, users>>
    PROVE RequestsTyped' /\ UsersAreTheirs'
  BY DEF RequestsTyped, UsersAreTheirs

\* Tokens that are new are of no session, and of none that was ended.
LEMMA NewTokens ==
    ASSUME Token \ UsedTokens # {}
    PROVE /\ New(Token \ UsedTokens) \in Token
          /\ New(Token \ UsedTokens) \notin ended
          /\ \A s \in sessions : s.token # New(Token \ UsedTokens)
  <1>1. New(Token \ UsedTokens) \in Token \ UsedTokens
    BY DEF New
  <1>2. ended \subseteq UsedTokens /\ \A s \in sessions : s.token \in UsedTokens
    BY DEF UsedTokens
  <1> QED
    BY <1>1, <1>2

----------------------------------------------------------------------------
(* Rows of users. *)

\* The row that a first sign-in gets is free, or its identity's already.
LEMMA WinnersRow ==
    ASSUME NEW identity \in Identity, UsersOf(identity) # {} \/ UsersOf(None) # {}
    PROVE /\ Winner(identity) \in UserIds
          /\ users[Winner(identity)] = identity
                \/ (users[Winner(identity)] = None /\ \A u \in UserIds : users[u] # identity)
  <1>1. CASE UsersOf(identity) # {}
    <2>1. Winner(identity) \in UsersOf(identity)
      BY <1>1 DEF Winner
    <2> QED
      BY <2>1 DEF UsersOf
  <1>2. CASE UsersOf(identity) = {}
    <2>1. Winner(identity) \in UsersOf(None)
      BY <1>2 DEF Winner, NewUser
    <2>2. \A u \in UserIds : users[u] # identity
      BY <1>2 DEF UsersOf
    <2> QED
      BY <2>1, <2>2 DEF UsersOf
  <1> QED
    BY <1>1, <1>2

\* A row that is written that way is the only one of its identity, and what
\* other rows say stays.
LEMMA RowInserted ==
    ASSUME NoneIsNobody, TypeOK, OneRowEach, NEW id \in UserIds, NEW identity \in Identity,
           users[id] = identity \/ (users[id] = None /\ \A u \in UserIds : users[u] # identity),
           users' = [users EXCEPT ![id] = identity]
    PROVE /\ users' \in [UserIds -> Identity \cup {None}]
          /\ users'[id] = identity
          /\ \A u \in UserIds : users[u] # None => users'[u] = users[u]
          /\ OneRowEach'
  <1>1. /\ users' \in [UserIds -> Identity \cup {None}]
        /\ users'[id] = identity
        /\ \A u \in UserIds \ {id} : users'[u] = users[u]
    BY DEF TypeOK
  <1>2. \A u \in UserIds : users[u] # None => users'[u] = users[u]
    BY <1>1
  <1>3. \A u \in UserIds \ {id} : users[u] # identity
    BY DEF OneRowEach, NoneIsNobody
  <1>4. OneRowEach'
    BY <1>1, <1>3 DEF OneRowEach
  <1> QED
    BY <1>1, <1>2, <1>4

----------------------------------------------------------------------------
(* Rows of sessions. *)

\* What is true of the sessions is true of fewer.
LEMMA FewerSessions ==
    ASSUME TypeOK, EndedAreGone, sessions' \subseteq sessions, UNCHANGED <<users, ended>>
    PROVE /\ sessions' \subseteq SessionRow
          /\ \A s, t \in sessions' : s.token = t.token => s = t
          /\ \A s \in sessions' : users'[s.user] # None
          /\ EndedAreGone'
  BY DEF TypeOK, EndedAreGone

\* The rest of the state keeps its types if it does not change.
LEMMA RestStays ==
    ASSUME TypeOK, UNCHANGED <<cookie, flow, tabs>>
    PROVE /\ \A b \in Browser : cookie'[b] # None => cookie'[b] \in Cookie
          /\ flow' \in [Browser -> Flow \cup {None}]
          /\ tabs' \subseteq Tab
  BY DEF TypeOK

\* A step that leaves the rows as they are keeps the invariant if it keeps the
\* types of what browsers hold, and what requests rely on.
LEMMA RowsStay ==
    ASSUME IInv, UNCHANGED <<users, sessions, ended>>,
           RequestsTyped', UsersAreTheirs',
           \A b \in Browser : cookie'[b] # None => cookie'[b] \in Cookie,
           flow' \in [Browser -> Flow \cup {None}],
           tabs' \subseteq Tab
    PROVE IInv'
  <1>1. TypeOK'
    BY DEF IInv, TypeOK
  <1>2. OneRowEach' /\ EndedAreGone'
    BY DEF IInv, OneRowEach, EndedAreGone
  <1> QED
    BY <1>1, <1>2 DEF IInv

----------------------------------------------------------------------------
(* Signing in. *)

LEMMA HandleStartKeeps ==
    ASSUME IInv, NEW b \in Browser, HandleStart(b)
    PROVE IInv'
  <1> DEFINE f == New(Flow \ UsedFlows)
  <1>1. f \in Flow
    BY DEF HandleStart, New
  <1>2. flow' \in [Browser -> Flow \cup {None}] /\ tabs' \subseteq Tab
    <2> HIDE DEF f
    <2>1. flow' = [flow EXCEPT ![b] = f] /\ tabs' = tabs \cup {[browser |-> b, flow |-> f]}
      BY DEF HandleStart, f
    <2> QED
      BY <1>1, <2>1 DEF IInv, TypeOK, Tab
  <1>3. RequestsTyped' /\ UsersAreTheirs'
    BY RequestsStay DEF HandleStart, IInv
  <1> QED
    BY <1>2, <1>3, RowsStay DEF HandleStart, IInv, TypeOK

LEMMA LoginErrorKeeps ==
    ASSUME IInv, NEW tab \in tabs, LoginError(tab)
    PROVE IInv'
  <1>1. flow' \in [Browser -> Flow \cup {None}] /\ tabs' \subseteq Tab
    BY DEF IInv, TypeOK, LoginError, Tab
  <1>2. RequestsTyped' /\ UsersAreTheirs'
    BY RequestsStay DEF LoginError, IInv
  <1> QED
    BY <1>1, <1>2, RowsStay DEF LoginError, IInv, TypeOK

LEMMA FlowLapsesKeeps ==
    ASSUME IInv, NEW b \in Browser, FlowLapses(b)
    PROVE IInv'
  <1>1. flow' \in [Browser -> Flow \cup {None}]
    BY DEF IInv, TypeOK, FlowLapses
  <1>2. RequestsTyped' /\ UsersAreTheirs'
    BY RequestsStay DEF FlowLapses, IInv
  <1> QED
    BY <1>1, <1>2, RowsStay DEF FlowLapses, IInv, TypeOK

LEMMA HandleCallbackKeeps ==
    ASSUME IInv, NEW tab \in tabs, NEW r \in Request, NEW i \in Identity,
           HandleCallback(r, tab, i)
    PROVE IInv'
  <1> DEFINE state == [pc |-> "look", browser |-> tab.browser, identity |-> i]
  <1>1. state \in RequestState /\ state.pc = "look"
    BY DEF IInv, TypeOK, Tab, RequestState
  <1>2. Goes(r, state)
    BY DEF HandleCallback, Begin, Goes
  <1>3. RequestsTyped' /\ UsersAreTheirs'
    <2> HIDE DEF state
    <2> QED
      BY <1>1, <1>2, RequestGoes DEF HandleCallback, IInv
  <1>4. tabs' \subseteq Tab
    BY DEF HandleCallback, IInv, TypeOK
  <1> QED
    BY <1>3, <1>4, RowsStay DEF HandleCallback, IInv, TypeOK

LEMMA FindUserKeeps ==
    ASSUME IInv, NEW r \in Request, FindUser(r)
    PROVE IInv'
  <1> DEFINE q == request[r]
             found == CHOOSE id \in UsersOf(q.identity) : TRUE
             again == [q EXCEPT !.pc = "insert"]
             state == [pc |-> "create", browser |-> q.browser, identity |-> q.identity,
                       user |-> found]
  <1>1. q.pc = "look" /\ q \in RequestState
    BY DEF FindUser, IInv, RequestsTyped
  <1>2. q \in [pc : {"look", "insert"}, browser : Browser, identity : Identity]
    BY <1>1 DEF RequestState, Idle
  <1>3. CASE UsersOf(q.identity) = {}
    <2>1. again \in RequestState /\ again.pc = "insert"
      BY <1>2 DEF RequestState
    <2>2. Goes(r, again)
      BY <1>3 DEF FindUser
    <2> HIDE DEF again
    <2>3. RequestsTyped' /\ UsersAreTheirs'
      BY <2>1, <2>2, RequestGoes DEF FindUser, IInv
    <2> QED
      BY <2>3, RowsStay DEF FindUser, IInv, TypeOK
  <1>4. CASE UsersOf(q.identity) # {}
    <2>1. found \in UserIds /\ users[found] = q.identity
      BY <1>4 DEF UsersOf
    <2>2. /\ state \in RequestState /\ state.pc = "create"
          /\ state.user = found /\ state.identity = q.identity
      BY <1>2, <2>1 DEF RequestState
    <2>3. Goes(r, state)
      BY <1>4 DEF FindUser
    <2> HIDE DEF found, state
    <2>4. RequestsTyped' /\ UsersAreTheirs'
      BY <2>1, <2>2, <2>3, RequestGoes DEF FindUser, IInv
    <2> QED
      BY <2>4, RowsStay DEF FindUser, IInv, TypeOK
  <1> QED
    BY <1>3, <1>4

LEMMA SignedInKeeps ==
    ASSUME IInv, NEW r \in Request, SignedIn(r)
    PROVE IInv'
  <1>1. /\ request[r].token \in Token /\ request[r].identity \in Identity
        /\ request[r].browser \in Browser
    BY RequestsKnow DEF SignedIn, IInv
  <1>2. \A b \in Browser : cookie'[b] # None => cookie'[b] \in Cookie
    <2>1. cookie' = [cookie EXCEPT ![request[r].browser] =
                        [token |-> request[r].token, identity |-> request[r].identity]]
      BY DEF SignedIn
    <2>2. [token |-> request[r].token, identity |-> request[r].identity] \in Cookie
      BY <1>1 DEF Cookie
    <2> QED
      BY <2>1, <2>2 DEF IInv, TypeOK
  <1>3. flow' \in [Browser -> Flow \cup {None}]
    BY DEF SignedIn, IInv, TypeOK
  <1>4. RequestsTyped' /\ UsersAreTheirs'
    BY RequestEnds DEF SignedIn, IInv
  <1> QED
    BY <1>2, <1>3, <1>4, RowsStay DEF SignedIn, IInv, TypeOK

LEMMA FailRequestKeeps ==
    ASSUME IInv, NEW r \in Request, FailRequest(r)
    PROVE IInv'
  <1>1. flow' \in [Browser -> Flow \cup {None}]
    BY DEF FailRequest, IInv, TypeOK
  <1>2. RequestsTyped' /\ UsersAreTheirs'
    BY RequestEnds DEF FailRequest, IInv
  <1> QED
    BY <1>1, <1>2, RowsStay DEF FailRequest, IInv, TypeOK

LEMMA AskKeeps ==
    ASSUME IInv, NEW r \in Request, NEW b \in Browser, NEW what \in Asked, Ask(r, b, what)
    PROVE IInv'
  <1> DEFINE state == [pc |-> "check", what |-> what, token |-> cookie[b].token,
                       identity |-> cookie[b].identity]
  <1>1. cookie[b] \in Cookie
    BY DEF Ask, IInv, TypeOK
  <1>2. state \in RequestState /\ state.pc = "check"
    BY <1>1 DEF Cookie, RequestState
  <1>3. Goes(r, state)
    BY DEF Ask, Begin, Goes
  <1>4. RequestsTyped' /\ UsersAreTheirs'
    <2> HIDE DEF state
    <2> QED
      BY <1>2, <1>3, RequestGoes DEF Ask, IInv
  <1> QED
    BY <1>4, RowsStay DEF Ask, IInv, TypeOK

LEMMA AuthenticateKeeps ==
    ASSUME IInv, NEW r \in Request, Authenticate(r)
    PROVE IInv'
  <1> DEFINE q == request[r]
  <1>1. /\ q.pc = "check"
        /\ q.what \in Asked /\ q.token \in Token /\ q.identity \in Identity
    BY RequestsKnow DEF Authenticate, IInv
  <1>2. RequestsTyped' /\ UsersAreTheirs'
    <2>1. CASE LiveSession(q.token, q.identity) = {}
      BY <2>1, RequestEnds DEF Authenticate, IInv
    <2>2. CASE LiveSession(q.token, q.identity) # {}
      <3>1. PICK s \in LiveSession(q.token, q.identity) :
              Goes(r, [pc |-> "act", what |-> q.what, token |-> q.token,
                       identity |-> q.identity, user |-> s.user])
        BY <2>2 DEF Authenticate
      <3> DEFINE state == [pc |-> "act", what |-> q.what, token |-> q.token,
                           identity |-> q.identity, user |-> s.user]
      <3>2. s.user \in UserIds /\ users[s.user] = q.identity
        BY DEF LiveSession, IInv, TypeOK, SessionRow
      <3>3. /\ state \in RequestState
            /\ state.user = s.user /\ state.identity = q.identity
        BY <1>1, <3>2 DEF RequestState
      <3> HIDE DEF state
      <3> QED
        BY <3>1, <3>2, <3>3, RequestGoes DEF Authenticate, IInv, state
    <2> QED
      BY <2>1, <2>2
  <1> QED
    BY <1>2, RowsStay DEF Authenticate, IInv, TypeOK

\* The race of first sign-ins: both insert, and one finds the other's row.
LEMMA InsertUserKeeps ==
    ASSUME NoneIsNobody, IInv, NEW r \in Request, InsertUser(r)
    PROVE IInv'
  <1> DEFINE q == request[r]
             id == Winner(q.identity)
             state == [pc |-> "create", browser |-> q.browser, identity |-> q.identity,
                       user |-> id]
  <1>1. q.browser \in Browser /\ q.identity \in Identity
    BY RequestsKnow DEF InsertUser, IInv
  <1>2. /\ id \in UserIds
        /\ \/ users[id] = q.identity
           \/ (users[id] = None /\ \A u \in UserIds : users[u] # q.identity)
    BY <1>1, WinnersRow DEF InsertUser
  <1>3. /\ Goes(r, state)
        /\ users' = [users EXCEPT ![id] = q.identity]
        /\ UNCHANGED <<sessions, cookie, flow, tabs, ended>>
    BY DEF InsertUser
  <1>4. /\ state \in RequestState /\ state.user = id /\ state.identity = q.identity
    BY <1>1, <1>2 DEF RequestState
  <1> HIDE DEF id, state
  <1>5. /\ users' \in [UserIds -> Identity \cup {None}]
        /\ users'[id] = q.identity
        /\ \A u \in UserIds : users[u] # None => users'[u] = users[u]
        /\ OneRowEach'
    BY <1>1, <1>2, <1>3, RowInserted DEF IInv
  <1>6. TypeOK'
    <2>1. \A s \in sessions' : users'[s.user] # None
      BY <1>3, <1>5 DEF IInv, TypeOK, SessionRow
    <2> QED
      BY <1>3, <1>5, <2>1 DEF IInv, TypeOK
  <1>7. request'[r] = state /\ \A p \in Request \ {r} : request'[p] = request[p]
    BY <1>3 DEF Goes, IInv, RequestsTyped
  <1>8. RequestsTyped'
    BY <1>3, <1>4 DEF Goes, IInv, RequestsTyped
  <1>9. UsersAreTheirs'
    <2> SUFFICES ASSUME NEW p \in Request, request'[p].pc \in {"create", "act"}
                 PROVE users'[request'[p].user] = request'[p].identity
      BY DEF UsersAreTheirs
    <2>1. CASE p = r
      BY <2>1, <1>4, <1>5, <1>7
    <2>2. CASE p # r
      <3>1. /\ request'[p] = request[p] /\ request[p].user \in UserIds
            /\ request[p].identity \in Identity
            /\ users[request[p].user] = request[p].identity
        BY <2>2, <1>7, RequestsKnow DEF IInv, UsersAreTheirs
      <3> QED
        BY <3>1, <1>5 DEF NoneIsNobody
    <2> QED
      BY <2>1, <2>2
  <1> QED
    BY <1>3, <1>5, <1>6, <1>8, <1>9 DEF IInv, EndedAreGone

LEMMA CreateSessionKeeps ==
    ASSUME NoneIsNobody, IInv, NEW r \in Request, CreateSession(r)
    PROVE IInv'
  <1> DEFINE q == request[r]
             t == New(Token \ UsedTokens)
             row == [token |-> t, user |-> q.user, expired |-> FALSE]
             state == [pc |-> "signedIn", browser |-> q.browser, identity |-> q.identity,
                       token |-> t]
  <1>1. /\ q.pc = "create"
        /\ q.browser \in Browser /\ q.identity \in Identity /\ q.user \in UserIds
        /\ users[q.user] = q.identity
    BY RequestsKnow DEF CreateSession, IInv, UsersAreTheirs
  <1>2. t \in Token /\ t \notin ended /\ \A s \in sessions : s.token # t
    BY NewTokens DEF CreateSession
  <1>3. /\ Goes(r, state)
        /\ sessions' = sessions \cup {row}
        /\ UNCHANGED <<users, cookie, flow, tabs, ended>>
    BY DEF CreateSession
  <1>4. state \in RequestState /\ state.pc = "signedIn"
    BY <1>1, <1>2 DEF RequestState
  <1>5. row \in SessionRow /\ row.token = t /\ row.user = q.user
    BY <1>1, <1>2 DEF SessionRow
  <1> HIDE DEF t, row, state
  <1>6. RequestsTyped' /\ UsersAreTheirs'
    BY <1>3, <1>4, RequestGoes DEF IInv
  <1>7. TypeOK'
    <2>1. \A s, u \in sessions' : s.token = u.token => s = u
      BY <1>2, <1>3, <1>5 DEF IInv, TypeOK
    <2>2. \A s \in sessions' : users'[s.user] # None
      BY <1>1, <1>3, <1>5 DEF IInv, TypeOK, NoneIsNobody
    <2> QED
      BY <1>3, <1>5, <2>1, <2>2 DEF IInv, TypeOK
  <1>8. EndedAreGone'
    BY <1>2, <1>3, <1>5 DEF IInv, EndedAreGone
  <1> QED
    BY <1>3, <1>6, <1>7, <1>8 DEF IInv, OneRowEach

----------------------------------------------------------------------------
(* Ending sessions. *)

\* All that the user was told is ended is deleted: the sessions of their
\* identity are those of the row that the request found.
LEMMA AskedIsDeleted ==
    ASSUME NoneIsNobody, IInv, NEW r \in Request, NEW one \in Token, request[r].pc = "act"
    PROVE /\ Asks(request[r], one) \subseteq Token
          /\ \A s \in sessions \ Deleted(request[r], one) : s.token \notin Asks(request[r], one)
  <1> DEFINE q == request[r]
  <1>1. /\ q.user \in UserIds /\ q.identity \in Identity
        /\ users[q.user] = q.identity
    BY RequestsKnow DEF IInv, UsersAreTheirs
  <1>2. \A s \in sessions : users[s.user] = q.identity => s.user = q.user
    BY <1>1 DEF IInv, TypeOK, SessionRow, OneRowEach, NoneIsNobody
  <1>3. \A x \in Asks(q, one) : \E s \in Deleted(q, one) : s \in sessions /\ s.token = x
    BY <1>2 DEF Asks, Deleted
  <1>4. Asks(q, one) \subseteq Token
    BY <1>3 DEF IInv, TypeOK, SessionRow
  <1>5. \A s \in sessions \ Deleted(q, one) : s.token \notin Asks(q, one)
    BY <1>3 DEF IInv, TypeOK
  <1> QED
    BY <1>4, <1>5

LEMMA RevokeKeeps ==
    ASSUME NoneIsNobody, IInv, NEW r \in Request, NEW one \in Token, Revoke(r, one)
    PROVE IInv'
  <1> DEFINE gone == Deleted(request[r], one)
             told == Asks(request[r], one)
  <1>1. /\ sessions' = sessions \ gone /\ ended' = ended \cup told
        /\ UNCHANGED <<users, cookie, flow, tabs>>
    BY DEF Revoke
  <1>2. told \subseteq Token /\ \A s \in sessions \ gone : s.token \notin told
    BY AskedIsDeleted DEF Revoke
  <1>3. RequestsTyped' /\ UsersAreTheirs'
    BY RequestEnds DEF Revoke, IInv
  <1> HIDE DEF gone, told
  <1>4. TypeOK'
    BY <1>1, <1>2 DEF IInv, TypeOK
  <1>5. EndedAreGone'
    BY <1>1, <1>2 DEF IInv, EndedAreGone
  <1> QED
    BY <1>1, <1>3, <1>4, <1>5 DEF IInv, OneRowEach

LEMMA HandleLogoutKeeps ==
    ASSUME IInv, NEW b \in Browser, NEW answered \in BOOLEAN, HandleLogout(b, answered)
    PROVE IInv'
  <1> DEFINE x == cookie[b].token
  <1>1. /\ sessions' = {s \in sessions : s.token # x} /\ ended' = ended \cup {x}
        /\ UNCHANGED <<users, flow, tabs, request>>
    BY DEF HandleLogout
  <1>2. x \in Token
    BY DEF HandleLogout, IInv, TypeOK, Cookie
  <1>3. \A c \in Browser : cookie'[c] # None => cookie'[c] \in Cookie
    <2>1. \A c \in Browser : cookie'[c] = cookie[c] \/ cookie'[c] = None
      BY DEF HandleLogout
    <2> QED
      BY <2>1 DEF IInv, TypeOK
  <1>4. TypeOK'
    BY <1>1, <1>2, <1>3 DEF IInv, TypeOK
  <1>5. EndedAreGone'
    BY <1>1 DEF IInv, EndedAreGone
  <1>6. RequestsTyped' /\ UsersAreTheirs'
    BY <1>1, RequestsStay DEF IInv
  <1> QED
    BY <1>1, <1>4, <1>5, <1>6 DEF IInv, OneRowEach

LEMMA LapseKeeps ==
    ASSUME IInv, NEW s \in sessions, Lapse(s)
    PROVE IInv'
  <1> DEFINE late == [s EXCEPT !.expired = TRUE]
  <1>1. /\ sessions' = (sessions \ {s}) \cup {late}
        /\ UNCHANGED <<users, cookie, flow, tabs, request, ended>>
    BY DEF Lapse
  <1>2. late \in SessionRow /\ late.token = s.token /\ late.user = s.user
    BY DEF IInv, TypeOK, SessionRow
  <1> HIDE DEF late
  <1>3. TypeOK'
    BY <1>1, <1>2 DEF IInv, TypeOK
  <1>4. EndedAreGone'
    BY <1>1, <1>2 DEF IInv, EndedAreGone
  <1>5. RequestsTyped' /\ UsersAreTheirs'
    BY <1>1, RequestsStay DEF IInv
  <1> QED
    BY <1>1, <1>3, <1>4, <1>5 DEF IInv, OneRowEach

LEMMA SweepSessionsKeeps ==
    ASSUME IInv, SweepSessions
    PROVE IInv'
  <1>1. sessions' \subseteq sessions /\ UNCHANGED <<users, cookie, flow, tabs, request, ended>>
    BY DEF SweepSessions
  <1>2. TypeOK' /\ EndedAreGone'
    BY <1>1, FewerSessions DEF IInv, TypeOK
  <1>3. RequestsTyped' /\ UsersAreTheirs'
    BY <1>1, RequestsStay DEF IInv
  <1> QED
    BY <1>1, <1>2, <1>3 DEF IInv, OneRowEach

----------------------------------------------------------------------------
(* The invariant. *)

LEMMA InitHolds == Init => IInv
  BY DEF Init, IInv, TypeOK, RequestsTyped, OneRowEach, UsersAreTheirs, EndedAreGone,
         RequestState, Idle

LEMMA NextKeeps ==
    ASSUME NoneIsNobody, IInv, Next
    PROVE IInv'
  <1>1. CASE \E b \in Browser : HandleStart(b) \/ FlowLapses(b)
    BY <1>1, HandleStartKeeps, FlowLapsesKeeps
  <1>2. CASE \E tab \in tabs :
                \/ LoginError(tab)
                \/ \E r \in Request, i \in Identity : HandleCallback(r, tab, i)
    BY <1>2, LoginErrorKeeps, HandleCallbackKeeps
  <1>3. CASE \E r \in Request : FindUser(r) \/ InsertUser(r) \/ CreateSession(r)
    BY <1>3, FindUserKeeps, InsertUserKeeps, CreateSessionKeeps
  <1>4. CASE \E r \in Request : SignedIn(r) \/ FailRequest(r) \/ Authenticate(r)
    BY <1>4, SignedInKeeps, FailRequestKeeps, AuthenticateKeeps
  <1>5. CASE \E r \in Request, b \in Browser, what \in Asked : Ask(r, b, what)
    BY <1>5, AskKeeps
  <1>6. CASE \E r \in Request, one \in Token : Revoke(r, one)
    BY <1>6, RevokeKeeps
  <1>7. CASE \E b \in Browser, answered \in BOOLEAN : HandleLogout(b, answered)
    BY <1>7, HandleLogoutKeeps
  <1>8. CASE (\E s \in sessions : Lapse(s)) \/ SweepSessions
    BY <1>8, LapseKeeps, SweepSessionsKeeps
  <1> QED
    BY <1>1, <1>2, <1>3, <1>4, <1>5, <1>6, <1>7, <1>8 DEF Next

\* Sign-ins and what ends sessions keep the rows of users and sessions in the
\* order that the invariant says, however requests race and fail.
THEOREM SessionsInvariantHolds == ASSUME NoneIsNobody PROVE Spec => []IInv
  <1>1. IInv /\ [Next]_vars => IInv'
    <2> SUFFICES ASSUME IInv, [Next]_vars PROVE IInv'
      OBVIOUS
    <2>1. CASE Next
      BY <2>1, NextKeeps
    <2>2. CASE UNCHANGED vars
      BY <2>2 DEF vars, IInv, TypeOK, RequestsTyped, OneRowEach, UsersAreTheirs, EndedAreGone
    <2> QED
      BY <2>1, <2>2
  <1> QED
    BY <1>1, InitHolds, PTL DEF Spec

\* The rows, the cookies and the flows of a sign-in keep their types; a token
\* names one session, and its user has a row (CreateSession, TouchSession).
THEOREM SessionsTypeCorrect == ASSUME NoneIsNobody PROVE Spec => []TypeOK
  <1>1. IInv => TypeOK
    BY DEF IInv
  <1> QED
    BY <1>1, SessionsInvariantHolds, PTL

\* A session that its user was told is ended admits no request again, wherever
\* its cookie is (RevokeSession, RevokeOtherSessions, RevokeAllSessions,
\* handleLogout).
THEOREM EndedSessionsStayEnded == ASSUME NoneIsNobody PROVE Spec => []EndedStaysEnded
  <1>1. IInv => EndedStaysEnded
    BY DEF IInv, EndedAreGone, EndedStaysEnded, LiveSession
  <1> QED
    BY <1>1, SessionsInvariantHolds, PTL

=============================================================================
