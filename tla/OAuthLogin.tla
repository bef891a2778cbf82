------------------------------ MODULE OAuthLogin -------------------------------
(***************************************************************************)
(* Login with Google, sessions and access tokens:                          *)
(* internal/usecase/auth/oauth_service.go with the handlers that call it,  *)
(* the authentication middleware, the in-memory store of states and the    *)
(* tables users and sessions.                                              *)
(*                                                                         *)
(* A call is a running request. One action is one access to the state      *)
(* store, to Google or to the database, with the checks up to the next     *)
(* one: nothing runs in a transaction. A restart of the process loses the  *)
(* state store and every running call and keeps the tables.                *)
(***************************************************************************)
EXTENDS Naturals, FiniteSets

CONSTANTS
  Accounts,     \* Google accounts (googleUser.ID)
  Addresses,    \* e-mail addresses
  Address,      \* the address of each account: it may pass to another account
  MaxStates,    \* bound: login pages asked for, each with a state of its own
  MaxCodes,     \* bound: consents given at Google, each with a code of its own
  MaxUsers,     \* bound: primary keys of users
  MaxSessions,  \* bound: primary keys of sessions
  Calls,        \* bound: calls that may run at the same time
  MaxCalls,     \* bound: calls in a behaviour
  StateTTL, AccessTTL, RefreshTTL,  \* in ticks: 15 min, and the two of the configuration
  MaxTime       \* bound: ticks; a JWT's timestamps have the granularity of a tick

ASSUME LoginBounds ==
  /\ MaxStates \in Nat /\ MaxCodes \in Nat /\ MaxUsers \in Nat /\ MaxSessions \in Nat
  /\ MaxCalls \in Nat /\ MaxTime \in Nat
  /\ StateTTL \in Nat /\ AccessTTL \in Nat /\ RefreshTTL \in Nat
ASSUME LoginNames  == Address \in [Accounts -> Addresses]

VARIABLES
  now,        \* the clock
  store,      \* the in-memory store of states
  codes,      \* at Google: the codes it has given out
  users,      \* the users table
  sessions,   \* the sessions table
  at,         \* each call: its next step and what it holds in its locals
  tokens,     \* the access tokens that clients have been given
  logins,     \* the logins that were answered with a session cookie
  loggedOut,  \* history: when the holder of a session was told that it is logged out
  started     \* calls started so far

vars == <<now, store, codes, users, sessions, at, tokens, logins, loggedOut, started>>
tables == <<codes, users, sessions>>
given  == <<tokens, logins, loggedOut>>

States   == 1..MaxStates
Codes    == 1..MaxCodes
Users    == 1..MaxUsers
Sessions == 1..MaxSessions
Never    == MaxTime + 1
NoKey    == 0

PCs == {"idle", "state_get", "state_delete", "exchange", "find_oauth", "find_email",
        "save_user", "create_user", "create_session", "touch", "refresh_user", "revoke",
        "auth_user", "served"}

Item    == [status : {"new", "stored", "gone"}, expires : Nat]
Code    == [status : {"new", "issued", "used"}, account : Accounts, state : States]
NoCode  == [status |-> "new"]
User    == [email : Addresses, oauth : Accounts]
NoUser  == [email |-> "none"]
Session == [user : Users, iat : Nat, expires : Nat, revoked : BOOLEAN, used : BOOLEAN]
NoRow   == [user |-> NoKey]
Token   == [user : Users, iat : Nat, key : Sessions, begun : Nat]
Login   == [key : Sessions, account : Accounts]
Local   == [pc : PCs, code : Codes \union {NoKey}, user : Users \union {NoKey},
            copy : User \union {NoUser}, key : Sessions \union {NoKey},
            wanted : Sessions \union {NoKey}, snap : Session \union {NoRow},
            iat : Nat, begun : Nat, fresh : BOOLEAN]

TypeOK ==
  /\ now \in Nat
  /\ store \in [States -> Item]
  /\ codes \in [Codes -> Code \union {NoCode}]
  /\ users \in [Users -> User \union {NoUser}]
  /\ sessions \in [Sessions -> Session \union {NoRow}]
  /\ at \in [Calls -> Local]
  /\ tokens \in SUBSET Token
  /\ logins \in SUBSET Login
  /\ loggedOut \in [Sessions -> Nat]
  /\ started \in Nat

Idle == [pc |-> "idle", code |-> NoKey, user |-> NoKey, copy |-> NoUser, key |-> NoKey,
         wanted |-> NoKey, snap |-> NoRow, iat |-> 0, begun |-> 0, fresh |-> FALSE]

Init ==
  /\ now = 0
  /\ store = [s \in States |-> [status |-> "new", expires |-> 0]]
  /\ codes = [c \in Codes |-> NoCode]
  /\ users = [u \in Users |-> NoUser]
  /\ sessions = [k \in Sessions |-> NoRow]
  /\ at = [h \in Calls |-> Idle]
  /\ tokens = {} /\ logins = {}
  /\ loggedOut = [k \in Sessions |-> Never]
  /\ started = 0

-----------------------------------------------------------------------------
(* The tables *)

\* New random values and new primary keys are taken in order.
Next1(S) == {i \in S : \A j \in S : i <= j}

HasUser(u)    == users[u] # NoUser
HasSession(k) == sessions[k] # NoRow

\* GenerateRefreshToken signs the user and the second, and nothing else.
RefreshToken(row) == <<row.user, row.iat>>

\* Session.IsExpired compares with After.
IsExpired(row) == now > row.expires

\* Mutant: the revocation is not looked at.
IsValidThoughRevoked(row) == ~IsExpired(row)

IsValid(row) == ~IsExpired(row) /\ ~row.revoked

\* Mutant: the column is not unique.
EmailFreeAlways(e) == TRUE

\* users.email is unique (migration 001); gorm's Create fails otherwise.
EmailFree(e) == \A u \in Users : HasUser(u) => users[u].email # e

InsertUser(u, row) ==
  /\ EmailFree(row.email)
  /\ u \in Next1({v \in Users : ~HasUser(v)})
  /\ users' = [users EXCEPT ![u] = row]

\* sessions.refresh_token is unique (migrations 005 and 010): two logins of one user in one
\* second have the same token, and the second login fails.
TokenFree(row) == \A k \in Sessions : HasSession(k) => RefreshToken(sessions[k]) # RefreshToken(row)

InsertSession(k, row) ==
  /\ TokenFree(row)
  /\ k \in Next1({j \in Sessions : ~HasSession(j)})
  /\ sessions' = [sessions EXCEPT ![k] = row]

Begin(h, local) ==
  /\ at[h] = Idle /\ started < MaxCalls
  /\ started' = started + 1
  /\ at' = [at EXCEPT ![h] = local]

Step(h, local) == at' = [at EXCEPT ![h] = local] /\ UNCHANGED started
Done(h)        == Step(h, Idle)

-----------------------------------------------------------------------------
(* The state of a login page: state.go over memory.go *)

GenerateState(s) ==
  /\ s \in Next1({r \in States : store[r].status = "new"})
  /\ store' = [store EXCEPT ![s] = [status |-> "stored", expires |-> now + StateTTL]]

\* The page is redirected to Google with the state. The bound leaves time for it to expire.
GoogleLogin(s) ==
  /\ GenerateState(s)
  /\ now + StateTTL < MaxTime
  /\ UNCHANGED <<now, at, started, tables, given>>

\* MemoryStore.Get: an expired item counts as missing, and stays.
Alive(s) == store[s].status = "stored" /\ now <= store[s].expires

Remove(S) == store' = [s \in States |-> IF s \in S THEN [store[s] EXCEPT !.status = "gone"]
                                                   ELSE store[s]]

\* Mutant: the comparison is the other way round.
ExpiredBefore(s) == store[s].status = "stored" /\ now < store[s].expires

Expired(s) == store[s].status = "stored" /\ now > store[s].expires

\* One round of cleanupExpired, under the lock.
CleanupExpired ==
  /\ \E s \in States : Expired(s)
  /\ Remove({s \in States : Expired(s)})
  /\ UNCHANGED <<now, at, started, tables, given>>

-----------------------------------------------------------------------------
(* Google *)

\* The owner of account a consents on a page with state s; the browser is sent to the
\* callback with the code and the state. One page may be consented to more than once.
Consent(a, s) ==
  \E c \in Next1({d \in Codes : codes[d] = NoCode}) :
    /\ store[s].status # "new"
    /\ codes' = [codes EXCEPT ![c] = [status |-> "issued", account |-> a, state |-> s]]
    /\ UNCHANGED <<now, store, users, sessions, at, started, given>>

-----------------------------------------------------------------------------
(* HandleGoogleCallback *)

Account(h) == codes[at[h].code].account
Page(h)    == codes[at[h].code].state

\* A callback with this state has exchanged its code.
LoggedInWith(s) == \E c \in Codes : codes[c].status = "used" /\ codes[c].state = s

\* The browser may send a callback more than once. A callback whose oauth_state cookie is
\* another one's is refused at once, and is no action.
GoogleCallback(h, c) ==
  /\ codes[c] # NoCode
  /\ Begin(h, [Idle EXCEPT !.pc = "state_get", !.code = c,
                           !.fresh = ~LoggedInWith(codes[c].state)])
  /\ UNCHANGED <<now, store, tables, given>>

\* ValidateState reads the state and deletes it, each under the lock of the store.
GetState(h) ==
  /\ at[h].pc = "state_get"
  /\ IF Alive(Page(h)) THEN Step(h, [at[h] EXCEPT !.pc = "state_delete"]) ELSE Done(h)
  /\ UNCHANGED <<now, store, tables, given>>

\* Mutant: the state is left in the store until it expires.
DeleteStateKeeps(h) ==
  /\ at[h].pc = "state_delete"
  /\ Step(h, [at[h] EXCEPT !.pc = "exchange"])
  /\ UNCHANGED <<now, store, tables, given>>

DeleteState(h) ==
  /\ at[h].pc = "state_delete"
  /\ Remove({Page(h)})
  /\ Step(h, [at[h] EXCEPT !.pc = "exchange"])
  /\ UNCHANGED <<now, tables, given>>

\* ExchangeCode and GetUserInfo. Google takes a code once; what follows needs the user info.
ExchangeCode(h) ==
  /\ at[h].pc = "exchange"
  /\ codes[at[h].code].status = "issued"
  /\ codes' = [codes EXCEPT ![at[h].code].status = "used"]
  /\ Step(h, [at[h] EXCEPT !.pc = "find_oauth"])
  /\ UNCHANGED <<now, store, users, sessions, given>>

\* Mutant: the row is looked up by the provider alone.
OAuthRowOfAny(u, a) == HasUser(u)

OAuthRow(u, a) == HasUser(u) /\ users[u].oauth = a

\* A known account: UpdateLastLogin and the picture are set in a copy of the row.
FindByOAuth(h) ==
  /\ at[h].pc = "find_oauth"
  /\ \/ \E u \in Users : /\ OAuthRow(u, Account(h))
                         /\ Step(h, [at[h] EXCEPT !.pc = "save_user", !.user = u,
                                                  !.copy = users[u]])
     \/ /\ \A u \in Users : ~OAuthRow(u, Account(h))
        /\ Step(h, [at[h] EXCEPT !.pc = "find_email"])
  /\ UNCHANGED <<now, store, tables, given>>

\* A row with the address is linked to the account. Whatever error the query returns, also
\* that of a lost connection, is taken for "there is none".
FindByEmail(h) ==
  /\ at[h].pc = "find_email"
  /\ \/ \E u \in Users : /\ HasUser(u) /\ users[u].email = Address[Account(h)]
                         /\ Step(h, [at[h] EXCEPT !.pc = "save_user", !.user = u,
                                                  !.copy = [users[u] EXCEPT !.oauth = Account(h)]])
     \/ Step(h, [at[h] EXCEPT !.pc = "create_user"])
  /\ UNCHANGED <<now, store, tables, given>>

\* The tokens are signed as soon as the user is known.
SignTokens(h, u) == Step(h, [at[h] EXCEPT !.pc = "create_session", !.user = u, !.iat = now,
                                          !.copy = NoUser])

\* userRepo.Update saves all of the copy, over what other logins wrote since it was read.
UpdateUser(h) ==
  /\ at[h].pc = "save_user"
  /\ users' = [users EXCEPT ![at[h].user] = at[h].copy]
  /\ SignTokens(h, at[h].user)
  /\ UNCHANGED <<now, store, codes, sessions, given>>

CreateUser(h) ==
  /\ at[h].pc = "create_user"
  /\ \E u \in Users : /\ InsertUser(u, [email |-> Address[Account(h)], oauth |-> Account(h)])
                      /\ SignTokens(h, u)
  /\ UNCHANGED <<now, store, codes, sessions, given>>

\* Mutant: the user is not set.
NewSessionOfNobody(u, iat) ==
  [user |-> NoKey, iat |-> iat, expires |-> iat + RefreshTTL, revoked |-> FALSE, used |-> FALSE]

NewSession(u, iat) ==
  [user |-> u, iat |-> iat, expires |-> iat + RefreshTTL, revoked |-> FALSE, used |-> FALSE]

\* The answer with the cookie may be lost: then nobody holds the session.
CreateSession(h) ==
  /\ at[h].pc = "create_session"
  /\ \E k \in Sessions : 
       /\ InsertSession(k, NewSession(at[h].user, at[h].iat))
       /\ \/ logins' = logins \union {[key |-> k, account |-> Account(h)]}
          \/ UNCHANGED logins
  /\ Done(h)
  /\ UNCHANGED <<now, store, codes, users, tokens, loggedOut>>

-----------------------------------------------------------------------------
(* RefreshAccessTokenBySessionID *)

Held(k) == \E l \in logins : l.key = k

RefreshAccessToken(h, k) ==
  /\ Held(k)
  /\ IsValid(sessions[k])
  /\ Begin(h, [Idle EXCEPT !.pc = "touch", !.key = k, !.snap = sessions[k],
                           !.begun = now])
  /\ UNCHANGED <<now, store, tables, given>>

\* Mutant: the session that was read is saved.
UpdateLastUsedSave(h) ==
  /\ at[h].pc = "touch"
  /\ sessions' = [sessions EXCEPT ![at[h].key] = [at[h].snap EXCEPT !.used = TRUE]]
  /\ Step(h, [at[h] EXCEPT !.pc = "refresh_user"])
  /\ UNCHANGED <<now, store, codes, users, given>>

\* One column is written; an error is ignored.
UpdateLastUsed(h) ==
  /\ at[h].pc = "touch"
  /\ \/ sessions' = [sessions EXCEPT ![at[h].key].used = TRUE]
     \/ UNCHANGED sessions
  /\ Step(h, [at[h] EXCEPT !.pc = "refresh_user"])
  /\ UNCHANGED <<now, store, codes, users, given>>

\* FindByID of the user, the access token and the answer.
IssueAccessToken(h) ==
  /\ at[h].pc = "refresh_user"
  /\ HasUser(at[h].snap.user)
  /\ tokens' = tokens \union {[user |-> at[h].snap.user, iat |-> now, key |-> at[h].key,
                               begun |-> at[h].begun]}
  /\ Done(h)
  /\ UNCHANGED <<now, store, tables, logins, loggedOut>>

-----------------------------------------------------------------------------
(* Logout *)

\* Revoke updates the row of the id, whether it is revoked or not. k is the session whose
\* holder logs out.
Revoke(j, k) ==
  /\ sessions' = [sessions EXCEPT ![j].revoked = TRUE]
  /\ loggedOut' = [loggedOut EXCEPT ![k] = IF @ = Never THEN now ELSE @]

\* With the session cookie: RevokeSessionByID, one statement.
Logout(k) ==
  /\ Held(k)
  /\ Revoke(k, k)
  /\ UNCHANGED <<now, store, codes, users, at, started, tokens, logins>>

\* With a refresh token, kept for older clients: FindByRefreshToken, then Revoke.
LogoutByToken(h, k) ==
  /\ HasSession(k)
  /\ \E j \in Sessions :
       /\ HasSession(j) /\ ~sessions[j].revoked
       /\ RefreshToken(sessions[j]) = RefreshToken(sessions[k])
       /\ Begin(h, [Idle EXCEPT !.pc = "revoke", !.key = j, !.wanted = k])
  /\ UNCHANGED <<now, store, tables, given>>

RevokeFound(h) ==
  /\ at[h].pc = "revoke"
  /\ Revoke(at[h].key, at[h].wanted)
  /\ Done(h)
  /\ UNCHANGED <<now, store, codes, users, tokens, logins>>

-----------------------------------------------------------------------------
(* EchoAuth *)

\* Mutant: the expiry of a token is not looked at.
TokenAcceptedLate(t) == TRUE

\* ValidateAccessToken: exp is exclusive.
TokenAccepted(t) == now < t.iat + AccessTTL

\* ValidateSession: the token is checked, then the user is read.
BearerRequest(h, t) ==
  /\ t \in tokens
  /\ TokenAccepted(t)
  /\ HasUser(t.user)
  /\ Begin(h, [Idle EXCEPT !.pc = "served", !.user = t.user, !.begun = now])
  /\ UNCHANGED <<now, store, tables, given>>

\* ValidateSessionByID: the session is read, then the user.
SessionRequest(h, k) ==
  /\ Held(k)
  /\ IsValid(sessions[k])
  /\ Begin(h, [Idle EXCEPT !.pc = "auth_user", !.user = sessions[k].user, !.begun = now])
  /\ UNCHANGED <<now, store, tables, given>>

Authenticate(h) ==
  /\ at[h].pc = "auth_user"
  /\ HasUser(at[h].user)
  /\ Step(h, [at[h] EXCEPT !.pc = "served"])
  /\ UNCHANGED <<now, store, tables, given>>

Respond(h) ==
  /\ at[h].pc = "served"
  /\ Done(h)
  /\ UNCHANGED <<now, store, tables, given>>

-----------------------------------------------------------------------------
(* Failures and time *)

\* Google or the database answers with an error, or a unique index refuses the row.
Fail(h) ==
  /\ at[h] # Idle
  /\ Done(h)
  /\ UNCHANGED <<now, store, tables, given>>

Restart ==
  /\ \E h \in Calls : at[h] # Idle
  /\ at' = [h \in Calls |-> Idle]
  /\ Remove({s \in States : store[s].status = "stored"})
  /\ UNCHANGED <<now, started, tables, given>>

Tick ==
  /\ now < MaxTime
  /\ now' = now + 1
  /\ UNCHANGED <<store, at, started, tables, given>>

Callback(h) ==
  \/ GetState(h) \/ DeleteState(h) \/ ExchangeCode(h) \/ FindByOAuth(h) \/ FindByEmail(h)
  \/ UpdateUser(h) \/ CreateUser(h) \/ CreateSession(h)

\* The handler RefreshToken, for whoever holds a session.
Refresh(h) ==
  \/ \E k \in Sessions : RefreshAccessToken(h, k)
  \/ UpdateLastUsed(h) \/ IssueAccessToken(h)

\* EchoAuth: a bearer token or the one of the access_token cookie, or the session cookie.
EchoAuth(h) ==
  \/ \E t \in tokens : BearerRequest(h, t)
  \/ \E k \in Sessions : SessionRequest(h, k)
  \/ Authenticate(h)

Request(h) ==
  \/ \E c \in Codes : GoogleCallback(h, c)
  \/ Refresh(h) \/ EchoAuth(h) \/ Respond(h)
  \/ RevokeFound(h) \/ \E k \in Sessions : LogoutByToken(h, k)

Next ==
  \/ \E s \in States : GoogleLogin(s) \/ \E a \in Accounts : Consent(a, s)
  \/ \E h \in Calls : Callback(h) \/ Request(h) \/ Fail(h)
  \/ \E k \in Sessions : Logout(k)
  \/ CleanupExpired \/ Restart \/ Tick

Spec == Init /\ [][Next]_vars

\* Time passes and the ticker of cleanupExpired goes off; nobody has to finish a login.
Fairness == WF_vars(Tick) /\ WF_vars(CleanupExpired)
FairSpec == Spec /\ Fairness

-----------------------------------------------------------------------------
(* What LoginContract sees *)

Registered == {<<users[u].email, u>> : u \in {v \in Users : HasUser(v)}}
Owner      == [k \in Sessions |-> sessions[k].user]
HandedOut  == {<<l.key, Address[l.account]>> : l \in logins}
Over       == {k \in Sessions : HasSession(k) /\ (sessions[k].revoked \/ IsExpired(sessions[k]))}
Granted    == {t.user : t \in tokens}

\* On whose behalf a call has shown a session: of the row that was read then.
Asked(l) == CASE l.pc \in {"touch", "refresh_user"} -> l.snap.user
              [] l.pc = "auth_user" -> l.user
              [] OTHER -> NoKey

Served(l) == IF l.pc = "served" THEN l.user ELSE NoKey

Asking  == [h \in Calls |-> Asked(at[h])]
Serving == [h \in Calls |-> Served(at[h])]

Contract == INSTANCE LoginContract WITH
  None <- NoKey, registered <- Registered, owner <- Owner, held <- HandedOut, over <- Over,
  asking <- Asking, granted <- Granted, serving <- Serving

-----------------------------------------------------------------------------
(* Properties *)

\* When the session was over: its first logout or its expiry.
End(k) == IF loggedOut[k] < sessions[k].expires THEN loggedOut[k] ELSE sessions[k].expires

\* Whoever logs in with the same e-mail address gets the same user, with his rooms and
\* meetings, also when two first logins run at once, when the address has passed to another
\* Google account, and when the query by address fails.
SameUserAtEveryLogin ==
  \A l, m \in logins : Address[l.account] = Address[m.account] =>
                         sessions[l.key].user = sessions[m.key].user

\* Nobody gets the session of a user with another address: HandleGoogleCallback finds or
\* makes the row by two different columns, in statements that other logins come between.
SessionOfOwner ==
  \A l \in logins : /\ HasUser(sessions[l.key].user)
                    /\ users[sessions[l.key].user].email = Address[l.account]

\* "Logged out successfully" is true and stays true: no refresh that had read the session
\* before brings it back, and a refresh token stands for one session.
LogoutIsFinal == \A k \in Sessions : loggedOut[k] # Never => sessions[k].revoked

\* A request is served on behalf of a user only while a session of his is good, or for
\* AccessTTL after a refresh that had begun while it was.  The documents promise more: that
\* logging out invalidates the token (docs/API_DESCRIPTION.md 67-70) by way of a blacklist
\* (docs/02-authentication-flow.md 57-58).  The code has none, no logout reaches an access
\* token that was given before, and this is what is left: for how long it is still good.
AccessEnds ==
  \A h \in Calls : at[h].pc = "served" =>
    \E k \in Sessions :
      /\ HasSession(k) /\ sessions[k].user = at[h].user
      /\ \/ at[h].begun <= End(k)
         \/ \E t \in tokens : /\ t.key = k /\ t.begun <= End(k)
                              /\ at[h].begun < t.iat + AccessTTL

\* What is left of "one-time use" (ValidateState) although reading and deleting a state are
\* two steps: a callback that arrives after another one with the same state has gone as far
\* as exchanging its code is refused. (fresh: when it arrived, none had.)
LateCallbackRefused ==
  \A h \in Calls : at[h].pc \in {"state_delete", "exchange", "find_oauth", "find_email",
                                 "save_user", "create_user", "create_session"} => at[h].fresh

\* An address is registered once and for all; a session has one owner, of the address it was
\* handed out to, and is over for good; nobody is served or given an access token but for a
\* session that was not over when he asked: whatever statements of other calls, logouts,
\* ticks and restarts come between the statements of a login, a refresh and a request.
ImplementsLogin == Contract!Spec

\* Every state leaves the store, that of a login nobody finishes too: none is there for ever.
AbandonedStatesFreed == \A s \in States : []<>(store[s].status # "stored")

=============================================================================
