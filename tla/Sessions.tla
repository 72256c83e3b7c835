------------------------------ MODULE Sessions -------------------------------
(***************************************************************************)
(* Signing in and out (internal/auth/handler.go, store.go; the tables      *)
(* users and sessions in internal/db; internal/api/session.go).  Browsers  *)
(* sign in through a provider, in one tab or in several, and their users   *)
(* end the sessions that result: this one, one of the others, the others,  *)
(* all.                                                                    *)
(*                                                                         *)
(* Cookies and ID tokens are genuine.  A cookie carries a token, which     *)
(* names the session's row, and the identity that signed in.               *)
(***************************************************************************)
EXTENDS Naturals, FiniteSets

CONSTANTS
    Browser, Identity, Request,
    UserIds,        \* ids of users' rows
    Token,          \* bearer tokens, each of one session
    Flow,           \* the state of a sign-in that goes to the provider and back
    None

VARIABLES
    users,          \* table users: the identity of each id
    sessions,       \* table sessions
    cookie,         \* each browser's session cookie
    flow,           \* each browser's flow cookie
    tabs,           \* the tabs that are at the provider
    request,        \* requests under way
    ended           \* history: the tokens whose sessions were ended by request

vars == <<users, sessions, cookie, flow, tabs, request, ended>>

SessionRow == [token : Token, user : UserIds, expired : BOOLEAN]
Cookie == [token : Token, identity : Identity]
Tab == [browser : Browser, flow : Flow]
Idle == [pc |-> "idle"]

Init ==
    /\ users = [id \in UserIds |-> None]
    /\ sessions = {}
    /\ cookie = [b \in Browser |-> None]
    /\ flow = [b \in Browser |-> None]
    /\ tabs = {}
    /\ request = [r \in Request |-> Idle]
    /\ ended = {}

UsersOf(identity) == {id \in UserIds : users[id] = identity}
NewUser == CHOOSE id \in UsersOf(None) : TRUE

\* Tokens and flows are random, and so one is as good as another.
New(unused) == CHOOSE x \in unused : TRUE
UsedTokens == {s.token : s \in sessions} \cup ended
    \cup {cookie[b].token : b \in {c \in Browser : cookie[c] # None}}
    \cup {request[r].token : r \in {q \in Request : "token" \in DOMAIN request[q]}}
UsedFlows == {t.flow : t \in tabs} \cup {flow[b] : b \in Browser}

Begin(r, state) == request[r] = Idle /\ request' = [request EXCEPT ![r] = state]
Goes(r, state) == request' = [request EXCEPT ![r] = state]
End(r) == request' = [request EXCEPT ![r] = Idle]

----------------------------------------------------------------------------
(* Signing in. *)

\* Each start replaces the flow cookie of the one before.
HandleStart(b) ==
    /\ Flow \ UsedFlows # {}
    /\ LET f == New(Flow \ UsedFlows)
       IN /\ flow' = [flow EXCEPT ![b] = f]
          /\ tabs' = tabs \cup {[browser |-> b, flow |-> f]}
    /\ UNCHANGED <<users, sessions, cookie, request, ended>>

\* A tab comes back for an identity, or with the provider's error, or too late,
\* or with a state that is not the flow cookie's: then the flow is forgotten.
HandleCallback(r, tab, identity) ==
    /\ tabs' = tabs \ {tab}
    /\ flow[tab.browser] = tab.flow
    /\ Begin(r, [pc |-> "look", browser |-> tab.browser, identity |-> identity])
    /\ UNCHANGED <<users, sessions, cookie, flow, ended>>

LoginError(tab) ==
    /\ tabs' = tabs \ {tab}
    /\ flow' = [flow EXCEPT ![tab.browser] = None]
    /\ UNCHANGED <<users, sessions, cookie, request, ended>>

\* The flow cookie outlives its ten minutes, or the browser forgets it.
FlowLapses(b) ==
    /\ flow[b] # None
    /\ flow' = [flow EXCEPT ![b] = None]
    /\ UNCHANGED <<users, sessions, cookie, tabs, request, ended>>

\* ResolveUser: a returning user is read; a new one is inserted, unless
\* another first sign-in of the identity was before it.
FindUser(r) ==
    LET q == request[r] IN
    /\ q.pc = "look"
    /\ IF UsersOf(q.identity) = {} THEN Goes(r, [q EXCEPT !.pc = "insert"])
       ELSE Goes(r, [pc |-> "create", browser |-> q.browser, identity |-> q.identity,
                     user |-> CHOOSE id \in UsersOf(q.identity) : TRUE])
    /\ UNCHANGED <<users, sessions, cookie, flow, tabs, ended>>

\* Mutant of Winner: each first sign-in inserts a row of its own.
WinnerOfNone(identity) == NewUser

\* ON CONFLICT (issuer, subject): the row that is there.  (UserIds bounds the rows.)
Winner(identity) ==
    IF UsersOf(identity) = {} THEN NewUser ELSE CHOOSE id \in UsersOf(identity) : TRUE

InsertUser(r) ==
    LET q == request[r]
        id == Winner(q.identity)
    IN /\ q.pc = "insert"
       /\ UsersOf(q.identity) # {} \/ UsersOf(None) # {}
       /\ Goes(r, [pc |-> "create", browser |-> q.browser, identity |-> q.identity, user |-> id])
       /\ users' = [users EXCEPT ![id] = q.identity]
       /\ UNCHANGED <<sessions, cookie, flow, tabs, ended>>

CreateSession(r) ==
    LET q == request[r] IN
    /\ q.pc = "create"
    /\ Token \ UsedTokens # {}
    /\ LET t == New(Token \ UsedTokens)
       IN /\ Goes(r, [pc |-> "signedIn", browser |-> q.browser, identity |-> q.identity,
                       token |-> t])
          /\ sessions' = sessions \cup {[token |-> t, user |-> q.user, expired |-> FALSE]}
    /\ UNCHANGED <<users, cookie, flow, tabs, ended>>

\* The answer sets the session cookie, whatever it held, and clears the
\* flow's.
SignedIn(r) ==
    LET q == request[r] IN
    /\ q.pc = "signedIn"
    /\ cookie' = [cookie EXCEPT ![q.browser] = [token |-> q.token, identity |-> q.identity]]
    /\ flow' = [flow EXCEPT ![q.browser] = None]
    /\ End(r)
    /\ UNCHANGED <<users, sessions, tabs, ended>>

\* The database fails, or the answer is lost; a sign-in that fails forgets
\* its flow.
FailRequest(r) ==
    /\ request[r] # Idle
    /\ End(r)
    /\ flow' = IF request[r].pc \in {"look", "insert", "create"}
               THEN [flow EXCEPT ![request[r].browser] = None] ELSE flow
    /\ UNCHANGED <<users, sessions, cookie, tabs, ended>>

----------------------------------------------------------------------------
(* Ending sessions. *)

Asked == {"one", "others", "all"}

\* A request carries the cookie that its browser has when it is sent.
Ask(r, b, what) ==
    /\ cookie[b] # None
    /\ Begin(r, [pc |-> "check", what |-> what, token |-> cookie[b].token,
                 identity |-> cookie[b].identity])
    /\ UNCHANGED <<users, sessions, cookie, flow, tabs, ended>>

\* TouchSession: the row behind a cookie.
LiveSession(token, identity) ==
    {s \in sessions : s.token = token /\ users[s.user] = identity /\ ~s.expired}

Authenticate(r) ==
    LET q == request[r] IN
    /\ q.pc = "check"
    /\ IF LiveSession(q.token, q.identity) = {} THEN End(r)
       ELSE \E s \in LiveSession(q.token, q.identity) :
              Goes(r, [pc |-> "act", what |-> q.what, token |-> q.token,
                       identity |-> q.identity, user |-> s.user])
    /\ UNCHANGED <<users, sessions, cookie, flow, tabs, ended>>

\* The sessions that a request deletes: one by its id, and of the caller's.
Deleted(q, one) ==
    {s \in sessions :
        /\ s.user = q.user
        /\ CASE q.what = "one" -> s.token = one
             [] q.what = "others" -> s.token # q.token
             [] OTHER -> TRUE}

\* What the user was told is ended: sessions of theirs, under whatever row.
Asks(q, one) ==
    {s.token : s \in {t \in sessions :
        /\ users[t.user] = q.identity
        /\ CASE q.what = "one" -> t.token = one
             [] q.what = "others" -> t.token # q.token
             [] OTHER -> TRUE}}

\* RevokeSession, RevokeOtherSessions and RevokeAllSessions.
Revoke(r, one) ==
    LET q == request[r] IN
    /\ q.pc = "act"
    /\ sessions' = sessions \ Deleted(q, one)
    /\ ended' = ended \cup Asks(q, one)
    /\ End(r)
    /\ UNCHANGED <<users, cookie, flow, tabs>>

\* handleLogout: a session whose row could not be deleted keeps its cookie.
\* The answer may be lost, and then the cookie stays too.
HandleLogout(b, answered) ==
    /\ cookie[b] # None
    /\ sessions' = {s \in sessions : s.token # cookie[b].token}
    /\ ended' = ended \cup {cookie[b].token}
    /\ cookie' = IF answered THEN [cookie EXCEPT ![b] = None] ELSE cookie
    /\ UNCHANGED <<users, flow, tabs, request>>

Lapse(s) ==
    /\ ~s.expired
    /\ sessions' = (sessions \ {s}) \cup {[s EXCEPT !.expired = TRUE]}
    /\ UNCHANGED <<users, cookie, flow, tabs, request, ended>>

SweepSessions ==
    /\ sessions' = {s \in sessions : ~s.expired}
    /\ sessions' # sessions
    /\ UNCHANGED <<users, cookie, flow, tabs, request, ended>>

Next ==
    \/ \E b \in Browser : HandleStart(b) \/ FlowLapses(b)
    \/ \E tab \in tabs :
          \/ LoginError(tab)
          \/ \E r \in Request, i \in Identity : HandleCallback(r, tab, i)
    \/ \E r \in Request :
          \/ FindUser(r) \/ InsertUser(r) \/ CreateSession(r) \/ SignedIn(r)
          \/ FailRequest(r) \/ Authenticate(r)
          \/ \E b \in Browser, what \in Asked : Ask(r, b, what)
          \/ \E one \in Token : Revoke(r, one)
    \/ \E b \in Browser, answered \in BOOLEAN : HandleLogout(b, answered)
    \/ \E s \in sessions : Lapse(s)
    \/ SweepSessions

Spec == Init /\ [][Next]_vars

----------------------------------------------------------------------------
(* Properties. *)

\* A token names one session, whose user has a row, and only one row has an
\* identity.
TypeOK ==
    /\ users \in [UserIds -> Identity \cup {None}]
    /\ sessions \subseteq SessionRow
    /\ \A s, t \in sessions : s.token = t.token => s = t
    /\ \A s \in sessions : users[s.user] # None
    /\ \A b \in Browser : cookie[b] # None => cookie[b] \in Cookie
    /\ flow \in [Browser -> Flow \cup {None}]
    /\ tabs \subseteq Tab
    /\ ended \subseteq Token

\* A session that its user was told is ended (that one, all but one, all, or by
\* signing out) admits no request again, wherever its cookie is, however the
\* identity's sign-ins raced: their sessions are those of one users row
\* (auth/session.go:17, api/session.go:14).
EndedStaysEnded ==
    \A token \in ended, i \in Identity : LiveSession(token, i) = {}

----------------------------------------------------------------------------
(* What the proofs rest on (SessionsProofs). *)

\* A row that is free is nobody's.
NoneIsNobody == None \notin Identity

\* What a request knows at each of its steps.
RequestState ==
    {Idle}
    \cup [pc : {"look", "insert"}, browser : Browser, identity : Identity]
    \cup [pc : {"create"}, browser : Browser, identity : Identity, user : UserIds]
    \cup [pc : {"signedIn"}, browser : Browser, identity : Identity, token : Token]
    \cup [pc : {"check"}, what : Asked, token : Token, identity : Identity]
    \cup [pc : {"act"}, what : Asked, token : Token, identity : Identity, user : UserIds]

RequestsTyped == request \in [Request -> RequestState]

\* Whoever's first sign-ins race, their identity has one row (UNIQUE (issuer, subject)).
OneRowEach == \A u, v \in UserIds : users[u] = users[v] /\ users[u] # None => u = v

\* A request that found a user's row holds that of its identity, for good.
UsersAreTheirs ==
    \A r \in Request : request[r].pc \in {"create", "act"} =>
        users[request[r].user] = request[r].identity

\* The session of a token that was ended has no row, expired or not.
EndedAreGone == \A s \in sessions : s.token \notin ended

IInv ==
    /\ TypeOK
    /\ RequestsTyped
    /\ OneRowEach
    /\ UsersAreTheirs
    /\ EndedAreGone
=============================================================================
