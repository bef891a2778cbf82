------------------------- MODULE LoginContractProofs -------------------------
(* OAuthLogin implements LoginContract: for any number of accounts, pages,   *)
(* users, sessions and calls, any lifetimes and any assignment of addresses. *)
(* Every statement is one step of the contract, or none.                     *)
EXTENDS OAuthLoginProofs

Unseen == UNCHANGED <<Registered, Owner, HandedOut, Over, Asking, Granted, Serving>>

\* Where a call has shown no session and is not served.
Silent == Callbacks \union {"revoke", "idle"}

-----------------------------------------------------------------------------
(* What each variable shows *)

LEMMA SameSeen ==
  /\ UNCHANGED users => Registered' = Registered
  /\ UNCHANGED sessions => Owner' = Owner
  /\ UNCHANGED <<now, sessions>> => Over' = Over
  /\ UNCHANGED logins => HandedOut' = HandedOut
  /\ UNCHANGED tokens => Granted' = Granted
  /\ UNCHANGED at => Asking' = Asking /\ Serving' = Serving
  <1>1. UNCHANGED users => Registered' = Registered
    BY DEF Registered, HasUser
  <1>2. UNCHANGED sessions => Owner' = Owner
    BY DEF Owner
  <1>3. UNCHANGED <<now, sessions>> => Over' = Over
    BY DEF Over, HasSession, IsExpired
  <1>4. UNCHANGED logins => HandedOut' = HandedOut
    BY DEF HandedOut
  <1>5. UNCHANGED tokens => Granted' = Granted
    BY DEF Granted
  <1>6. UNCHANGED at => Asking' = Asking /\ Serving' = Serving
    BY DEF Asking, Serving, Asked, Served
  <1>7. QED
    BY <1>1, <1>2, <1>3, <1>4, <1>5, <1>6

LEMMA CallSeen ==
  ASSUME IInv, NEW h \in Calls, NEW l, at' = [at EXCEPT ![h] = l]
  PROVE  /\ Asking' = [Asking EXCEPT ![h] = Asked(l)]
         /\ Serving' = [Serving EXCEPT ![h] = Served(l)]
  <1>1. \A g \in Calls : at'[g] = IF g = h THEN l ELSE at[g]
    BY DEF IInv, AtInv
  <1>2. \A g \in Calls : Asked(at[g])' = IF g = h THEN Asked(l) ELSE Asked(at[g])
    BY <1>1 DEF Asked
  <1>3. \A g \in Calls : Served(at[g])' = IF g = h THEN Served(l) ELSE Served(at[g])
    BY <1>1 DEF Served
  <1>4. QED
    BY <1>2, <1>3 DEF Asking, Serving

LEMMA SilentCall ==
  ASSUME NEW l, l.pc \in Silent
  PROVE  Asked(l) = NoKey /\ Served(l) = NoKey
  BY DEF Silent, Callbacks, Exchanging, Asked, Served

LEMMA IdleCall == Idle.pc \in Silent
  BY DEF Idle, Silent

\* A call whose next statements show as much as its last.
LEMMA SameCall ==
  ASSUME IInv, NEW h \in Calls, NEW l, at' = [at EXCEPT ![h] = l],
         Asked(l) = Asked(at[h]), Served(l) = Served(at[h])
  PROVE  Asking' = Asking /\ Serving' = Serving
  <1>1. Asked(at[h]) = Asking[h] /\ Served(at[h]) = Serving[h]
    BY DEF Asking, Serving
  <1>2. Asking' = [Asking EXCEPT ![h] = Asking[h]] /\ Serving' = [Serving EXCEPT ![h] = Serving[h]]
    BY <1>1, CallSeen
  <1>3. QED
    BY <1>2 DEF Asking, Serving

LEMMA StaysSilent ==
  ASSUME IInv, NEW h \in Calls, at[h].pc \in Silent, NEW l, l.pc \in Silent,
         at' = [at EXCEPT ![h] = l]
  PROVE  Asking' = Asking /\ Serving' = Serving
  BY SilentCall, SameCall

\* A call that ends, having written nothing that the contract sees.
LEMMA EndSeen ==
  ASSUME IInv, NEW h \in Calls, Done(h),
         UNCHANGED <<Registered, Owner, HandedOut, Over, Granted>>
  PROVE  Contract!Next
  <1>0. at' = [at EXCEPT ![h] = Idle] /\ Asked(Idle) = NoKey /\ Served(Idle) = NoKey
    BY SilentCall, IdleCall DEF Done, Step
  <1>1. /\ Asking' = [Asking EXCEPT ![h] = NoKey]
        /\ Serving' = [Serving EXCEPT ![h] = NoKey]
    <2>1. /\ Asking' = [Asking EXCEPT ![h] = Asked(Idle)]
          /\ Serving' = [Serving EXCEPT ![h] = Served(Idle)]
      BY <1>0, CallSeen
    <2>2. QED
      BY <1>0, <2>1
  <1>2. /\ Asking' = [g \in Calls |-> IF g \in {h} THEN NoKey ELSE Asking[g]]
        /\ Serving' = [g \in Calls |-> IF g \in {h} THEN NoKey ELSE Serving[g]]
    BY <1>1 DEF Asking, Serving
  <1>3. Contract!Stop({h})
    BY <1>2 DEF Contract!Stop
  <1>4. QED
    BY <1>3 DEF Contract!Next

\* A session's row is written.
LEMMA RowSeen ==
  ASSUME IInv, NEW k \in Sessions, NEW row \in Session, sessions' = [sessions EXCEPT ![k] = row],
         UNCHANGED now
  PROVE  /\ Owner' = [Owner EXCEPT ![k] = row.user]
         /\ Over' = (Over \ {k}) \union (IF row.revoked \/ IsExpired(row) THEN {k} ELSE {})
  <1>1. \A j \in Sessions : sessions'[j] = IF j = k THEN row ELSE sessions[j]
    BY DEF IInv, SessionsInv
  <1>2. Owner' = [Owner EXCEPT ![k] = row.user]
    <2>1. \A j \in Sessions : sessions'[j].user = IF j = k THEN row.user ELSE sessions[j].user
      BY <1>1
    <2>2. Owner' = [j \in Sessions |-> IF j = k THEN row.user ELSE sessions[j].user]
      BY <2>1 DEF Owner
    <2>3. QED
      BY <2>2 DEF Owner
  <1>3. row # NoRow
    <2>1. NoRow.user \notin Users /\ row.user \in Users
      BY DEF NoRow, NoKey, Users, Session
    <2>2. QED
      BY <2>1
  <1>4. ASSUME NEW j \in Sessions
        PROVE  j \in Over' <=> IF j = k THEN row.revoked \/ IsExpired(row) ELSE j \in Over
    BY <1>1, <1>3 DEF Over, HasSession, IsExpired
  <1>5. Over' \subseteq Sessions /\ Over \subseteq Sessions
    BY DEF Over
  <1>6. QED
    BY <1>2, <1>4, <1>5

-----------------------------------------------------------------------------
(* Pages, codes and the users table *)

\* Statements that the contract does not see.
LEMMA NothingSeen ==
  ASSUME UNCHANGED <<now, users, sessions, tokens, logins>>,
         Asking' = Asking, Serving' = Serving
  PROVE  Unseen
  BY SameSeen DEF Unseen

LEMMA PagesSeen ==
  ASSUME CleanupExpired \/ \E s \in States : GoogleLogin(s) \/ \E a \in Accounts : Consent(a, s)
  PROVE  Unseen
  <1>1. UNCHANGED <<now, users, sessions, at, tokens, logins>>
    BY DEF CleanupExpired, GoogleLogin, Consent, tables, given
  <1>2. QED
    BY <1>1, SameSeen, NothingSeen

\* The callback up to the user.
LEMMA FindingSeen ==
  ASSUME IInv, NEW h \in Calls,
         \/ \E c \in Codes : GoogleCallback(h, c)
         \/ GetState(h) \/ DeleteState(h) \/ ExchangeCode(h) \/ FindByOAuth(h) \/ FindByEmail(h)
  PROVE  Unseen
  <1>1. UNCHANGED <<now, users, sessions, tokens, logins>>
    BY DEF GoogleCallback, GetState, DeleteState, ExchangeCode, FindByOAuth, FindByEmail, tables,
           given
  <1>2. at[h].pc \in Silent
    BY IdleCall DEF GoogleCallback, GetState, DeleteState, ExchangeCode, FindByOAuth, FindByEmail,
                    Begin, Silent, Callbacks, Exchanging
  <1>3. \E l : at' = [at EXCEPT ![h] = l] /\ l.pc \in Silent
    <2>1. ASSUME NEW c \in Codes, GoogleCallback(h, c)
          PROVE  \E l : at' = [at EXCEPT ![h] = l] /\ l.pc \in Silent
      <3> DEFINE l == [Idle EXCEPT !.pc = "state_get", !.code = c,
                                   !.fresh = ~LoggedInWith(codes[c].state)]
      <3>1. at' = [at EXCEPT ![h] = l]
        BY <2>1 DEF GoogleCallback, Begin
      <3>2. l.pc = "state_get"
        BY DEF Idle
      <3> HIDE DEF l
      <3>3. QED
        BY <3>1, <3>2 DEF Silent, Callbacks
    <2>2. at[h] \in Local
      BY DEF IInv, AtInv
    <2>3. CASE Done(h)
      BY <2>3, IdleCall DEF Done, Step
    <2>4. ASSUME NEW pc \in Callbacks, Step(h, [at[h] EXCEPT !.pc = pc])
          PROVE  \E l : at' = [at EXCEPT ![h] = l] /\ l.pc \in Silent
      <3>1. [at[h] EXCEPT !.pc = pc].pc = pc
        BY <2>2 DEF Local
      <3>2. QED
        BY <2>4, <3>1 DEF Step, Silent
    <2>5. ASSUME NEW u, NEW row,
                 Step(h, [at[h] EXCEPT !.pc = "save_user", !.user = u, !.copy = row])
          PROVE  \E l : at' = [at EXCEPT ![h] = l] /\ l.pc \in Silent
      <3>1. [at[h] EXCEPT !.pc = "save_user", !.user = u, !.copy = row].pc = "save_user"
        BY <2>2 DEF Local
      <3>2. QED
        BY <2>5, <3>1 DEF Step, Silent, Callbacks, Exchanging
    <2>6. /\ "state_delete" \in Callbacks /\ "exchange" \in Callbacks /\ "find_oauth" \in Callbacks
          /\ "find_email" \in Callbacks /\ "create_user" \in Callbacks
      BY DEF Callbacks, Exchanging
    <2>7. CASE GetState(h)
      BY <2>3, <2>4, <2>6, <2>7 DEF GetState
    <2>8. CASE DeleteState(h) \/ ExchangeCode(h)
      BY <2>4, <2>6, <2>8 DEF DeleteState, ExchangeCode
    <2>9. CASE FindByOAuth(h)
      BY <2>4, <2>5, <2>6, <2>9 DEF FindByOAuth
    <2>10. CASE FindByEmail(h)
      BY <2>4, <2>5, <2>6, <2>10 DEF FindByEmail
    <2>11. QED
      BY <2>1, <2>7, <2>8, <2>9, <2>10
  <1>4. Asking' = Asking /\ Serving' = Serving
    BY <1>2, <1>3, StaysSilent
  <1>5. QED
    BY <1>1, <1>4, NothingSeen

LEMMA SigningSeen ==
  ASSUME IInv, NEW h \in Calls, at[h].pc \in {"save_user", "create_user"}, NEW u, SignTokens(h, u)
  PROVE  Asking' = Asking /\ Serving' = Serving
  <1> DEFINE l == [at[h] EXCEPT !.pc = "create_session", !.user = u, !.iat = now, !.copy = NoUser]
  <1>1. at' = [at EXCEPT ![h] = l]
    BY DEF SignTokens, Step
  <1>2. at[h] \in Local
    BY DEF IInv, AtInv
  <1>3. l.pc = "create_session"
    BY <1>2 DEF Local
  <1> HIDE DEF l
  <1>4. at[h].pc \in Silent /\ l.pc \in Silent
    BY <1>3 DEF Silent, Callbacks, Exchanging
  <1>5. QED
    BY <1>1, <1>4, StaysSilent

\* A copy is saved over a row: the address is the row's.
LEMMA UpdateUserSeen ==
  ASSUME IInv, NEW h \in Calls, UpdateUser(h)
  PROVE  Unseen
  <1> DEFINE u == at[h].user
             row == at[h].copy
  <1>1. /\ at[h].pc = "save_user" /\ at[h].pc \in Callbacks
        /\ users' = [users EXCEPT ![u] = row] /\ SignTokens(h, u)
        /\ UNCHANGED <<now, sessions, tokens, logins>>
    BY DEF UpdateUser, given, Callbacks, Exchanging
  <1>2. CallbackHolds(at[h], Account(h), Page(h), Facts)
    BY <1>1, Caller
  <1>3. <<u, Address[Account(h)]>> \in Owners /\ row \in User /\ row.email = Address[Account(h)]
    BY <1>1, <1>2 DEF CallbackHolds, Facts
  <1>4. u \in Users /\ HasUser(u) /\ users[u].email = row.email /\ row # NoUser
    <2>1. row # NoUser
      BY <1>3 DEF User, NoUser
    <2>2. QED
      BY <1>3, <2>1, OwnerIs
  <1>5. Asking' = Asking /\ Serving' = Serving
    BY <1>1, SigningSeen
  <1> HIDE DEF u, row
  <1>6. \A v \in Users : HasUser(v)' = HasUser(v) /\ users'[v].email = users[v].email
    <2>1. \A v \in Users : users'[v] = IF v = u THEN row ELSE users[v]
      BY <1>1 DEF IInv, UsersInv
    <2>2. QED
      BY <1>4, <2>1 DEF HasUser
  <1>7. Registered' = Registered
    BY <1>6 DEF Registered
  <1>8. QED
    BY <1>1, <1>5, <1>7, SameSeen DEF Unseen

LEMMA CreateUserSeen ==
  ASSUME IInv, NEW h \in Calls, CreateUser(h)
  PROVE  Contract!Next
  <1> DEFINE e == Address[Account(h)]
             row == [email |-> e, oauth |-> Account(h)]
  <1>1. PICK u \in Users : InsertUser(u, row) /\ SignTokens(h, u)
    BY DEF CreateUser
  <1>2. /\ at[h].pc = "create_user" /\ at[h].pc \in Callbacks
        /\ UNCHANGED <<now, sessions, tokens, logins>>
    BY DEF CreateUser, given, Callbacks, Exchanging
  <1>3. e \in Addresses
    BY <1>2, Caller, LoginNames
  <1>4. row.email = e /\ row # NoUser
    <2>1. DOMAIN row = {"email", "oauth"} /\ DOMAIN NoUser = {"email"}
      BY DEF NoUser
    <2>2. QED
      BY <2>1
  <1>5. /\ users' = [users EXCEPT ![u] = row] /\ ~HasUser(u)
        /\ \A v \in Users : HasUser(v) => users[v].email # e
    BY <1>1, <1>4 DEF InsertUser, Next1, EmailFree
  <1> HIDE DEF row
  <1>6. \A v \in Users : users'[v] = IF v = u THEN row ELSE users[v]
    BY <1>5 DEF IInv, UsersInv
  <1>7. \A v \in Users : HasUser(v)' <=> HasUser(v) \/ v = u
    BY <1>4, <1>6 DEF HasUser
  <1>8. \A v \in Users : HasUser(v) => v # u /\ users'[v].email = users[v].email
    BY <1>5, <1>6
  <1>9. users'[u].email = e
    BY <1>4, <1>6
  <1> HIDE DEF e
  <1>10. Registered' = Registered \union {<<e, u>>}
    BY <1>7, <1>8, <1>9 DEF Registered
  <1>11. \A x \in Registered : x[1] # e /\ x[2] # u
    BY <1>5 DEF Registered
  <1>12. Asking' = Asking /\ Serving' = Serving
    BY <1>1, <1>2, SigningSeen
  <1>13. Contract!Register(e, u)
    BY <1>2, <1>10, <1>11, <1>12, SameSeen DEF Contract!Register
  <1>14. QED
    BY <1>3, <1>13 DEF Contract!Next

-----------------------------------------------------------------------------
(* Sessions *)

LEMMA CreateSessionSeen ==
  ASSUME IInv, NEW h \in Calls, CreateSession(h)
  PROVE  Contract!Next
  <1> DEFINE u == at[h].user
             e == Address[Account(h)]
             row == NewSession(at[h].user, at[h].iat)
             login(k) == [key |-> k, account |-> Account(h)]
  <1>1. at[h].pc = "create_session" /\ at[h].pc \in Callbacks
    BY DEF CreateSession, Callbacks, Exchanging
  <1>2. <<u, e>> \in Owners /\ at[h].iat \in Nat
    BY <1>1, Caller DEF CallbackHolds, Facts, Local
  <1>3. u \in Users /\ HasUser(u) /\ users[u].email = e
    BY <1>2, OwnerIs
  <1>4. row \in Session /\ row.user = u
    BY <1>2, <1>3, LoginBounds DEF NewSession, Session
  <1>5. PICK k \in Sessions :
          InsertSession(k, row) /\ (logins' = logins \union {login(k)} \/ UNCHANGED logins)
    BY DEF CreateSession
  <1>6. /\ UNCHANGED <<now, users, tokens>> /\ Done(h)
        /\ ~HasSession(k) /\ sessions' = [sessions EXCEPT ![k] = row]
    BY <1>5 DEF CreateSession, InsertSession, Next1
  <1>7. <<e, u>> \in Registered
    BY <1>3 DEF Registered
  <1>8. Owner[k] = NoKey
    BY <1>6 DEF Owner, HasSession, NoRow
  <1>9. HandedOut' \in {HandedOut, HandedOut \union {<<k, e>>}}
    <2>1. login(k).key = k /\ Address[login(k).account] = e
      OBVIOUS
    <2> HIDE DEF login, e
    <2>2. CASE logins' = logins \union {login(k)}
      BY <2>1, <2>2 DEF HandedOut
    <2>3. CASE UNCHANGED logins
      BY <2>3, SameSeen
    <2>4. QED
      BY <1>5, <2>2, <2>3
  <1> HIDE DEF row
  <1>10. k \notin Over
    BY <1>6 DEF Over
  <1>11. /\ Owner' = [Owner EXCEPT ![k] = u]
         /\ Over' \in {Over, Over \union {k}}
    <2>1. /\ Owner' = [Owner EXCEPT ![k] = row.user]
          /\ Over' = (Over \ {k}) \union (IF row.revoked \/ IsExpired(row) THEN {k} ELSE {})
      BY <1>4, <1>6, RowSeen
    <2>2. QED
      BY <1>4, <1>10, <2>1
  <1>12. at[h].pc \in Silent /\ at' = [at EXCEPT ![h] = Idle]
    BY <1>1, <1>6 DEF Silent, Done, Step
  <1>13. Asking' = Asking /\ Serving' = Serving
    BY <1>12, StaysSilent, IdleCall
  <1> HIDE DEF u, e
  <1>14. <<e, u>>[1] = e /\ <<e, u>>[2] = u
    OBVIOUS
  <1>15. Contract!LogIn(<<e, u>>, k)
    BY <1>6, <1>8, <1>9, <1>11, <1>13, <1>14, SameSeen DEF Contract!LogIn
  <1>16. QED
    BY <1>7, <1>15 DEF Contract!Next

\* Sessions that are over when they were not, and nothing else.
LEMMA OverSeen ==
  ASSUME Over \subseteq Over', Owner' = Owner,
         UNCHANGED <<users, logins, tokens>>, Asking' = Asking, Serving' = Serving,
         \A k \in Over' : Owner[k] # NoKey
  PROVE  Contract!Next
  <1>1. Over' = Over \union Over' /\ Over' \in SUBSET Sessions
    BY DEF Over
  <1>2. Contract!End(Over')
    BY <1>1, SameSeen DEF Contract!End
  <1>3. QED
    BY <1>1, <1>2 DEF Contract!Next

LEMMA HasOwner ==
  ASSUME IInv, NEW k \in Sessions, HasSession(k)
  PROVE  Owner[k] \in Users /\ Owner[k] # NoKey
  BY DEF IInv, SessionsInv, HasSession, Session, Owner, NoKey, Users

LEMMA TickSeen ==
  ASSUME IInv, Tick
  PROVE  Contract!Next
  <1>1. UNCHANGED <<users, sessions, at, tokens, logins>> /\ now' = now + 1 /\ now \in Nat
    BY DEF Tick, tables, given, IInv, TimeInv
  <1>2. ASSUME NEW k \in Sessions, HasSession(k), IsExpired(sessions[k])
        PROVE  IsExpired(sessions[k])'
    <2>1. sessions[k].expires \in Nat
      BY <1>2 DEF HasSession, IInv, SessionsInv, Session
    <2>2. QED
      BY <1>1, <1>2, <2>1 DEF IsExpired
  <1>3. Over \subseteq Over'
    BY <1>1, <1>2 DEF Over, HasSession
  <1>4. \A k \in Over' : Owner[k] # NoKey
    BY <1>1, HasOwner DEF Over, HasSession
  <1>5. QED
    BY <1>1, <1>3, <1>4, SameSeen, OverSeen

LEMMA RevokeSeen ==
  ASSUME IInv, NEW k \in Sessions, NEW j \in Sessions, HasSession(k), Revoke(k, j),
         UNCHANGED <<now, users, logins, tokens>>, Asking' = Asking, Serving' = Serving
  PROVE  Contract!Next
  <1> DEFINE row == [sessions[k] EXCEPT !.revoked = TRUE]
  <1>1. sessions[k] \in Session
    BY DEF HasSession, IInv, SessionsInv
  <1>2. /\ row \in Session /\ row.user = sessions[k].user /\ row.revoked
        /\ sessions' = [sessions EXCEPT ![k] = row]
    BY <1>1 DEF Revoke, Session
  <1> HIDE DEF row
  <1>3. Owner' = [Owner EXCEPT ![k] = row.user] /\ Over' = Over \union {k}
    BY <1>2, RowSeen
  <1>4. Owner' = Owner
    BY <1>2, <1>3 DEF Owner
  <1>5. \A i \in Over' : Owner[i] # NoKey
    BY <1>3, HasOwner DEF Over
  <1>6. QED
    BY <1>3, <1>4, <1>5, OverSeen

LEMMA LogoutSeen ==
  ASSUME IInv, NEW k \in Sessions, Logout(k)
  PROVE  Contract!Next
  BY HeldRow, SameSeen, RevokeSeen DEF Logout

LEMMA RevokeFoundSeen ==
  ASSUME IInv, NEW h \in Calls, RevokeFound(h)
  PROVE  Contract!Next
  <1>1. /\ at[h].pc = "revoke" /\ Revoke(at[h].key, at[h].wanted) /\ Done(h)
        /\ UNCHANGED <<now, users, tokens, logins>>
    BY DEF RevokeFound
  <1>2. /\ at[h].key \in Sessions /\ at[h].wanted \in Sessions
        /\ \E u \in Users, i \in Nat : <<at[h].key, u, i>> \in Facts.rows
    BY <1>1 DEF IInv, AtInv, Holds
  <1>3. HasSession(at[h].key)
    BY <1>2, RowIs DEF Facts
  <1>4. at[h].pc \in Silent /\ at' = [at EXCEPT ![h] = Idle]
    BY <1>1 DEF Silent, Done, Step
  <1>5. Asking' = Asking /\ Serving' = Serving
    BY <1>4, StaysSilent, IdleCall
  <1>6. QED
    BY <1>1, <1>2, <1>3, <1>5, RevokeSeen

LEMMA LogoutByTokenSeen ==
  ASSUME IInv, NEW h \in Calls, NEW k \in Sessions, LogoutByToken(h, k)
  PROVE  Unseen
  <1>1. PICK j : Begin(h, [Idle EXCEPT !.pc = "revoke", !.key = j, !.wanted = k])
    BY DEF LogoutByToken
  <1> DEFINE l == [Idle EXCEPT !.pc = "revoke", !.key = j, !.wanted = k]
  <1>2. /\ at[h] = Idle /\ at' = [at EXCEPT ![h] = l]
        /\ UNCHANGED <<now, users, sessions, tokens, logins>>
    BY <1>1 DEF LogoutByToken, Begin, tables, given
  <1>3. l.pc = "revoke"
    BY DEF Idle
  <1> HIDE DEF l
  <1>4. Asking' = Asking /\ Serving' = Serving
    BY <1>2, <1>3, IdleCall, StaysSilent DEF Silent
  <1>5. QED
    BY <1>2, <1>4, NothingSeen

-----------------------------------------------------------------------------
(* Refreshes and requests *)

\* A call that shows a session which is not over.
LEMMA AskSeen ==
  ASSUME IInv, NEW h \in Calls, NEW k \in Sessions, NEW l, Held(k), IsValid(sessions[k]),
         Begin(h, l), Asked(l) = sessions[k].user, Served(l) = NoKey,
         UNCHANGED <<now, users, sessions, tokens, logins>>
  PROVE  Contract!Next
  <1>1. at[h] = Idle /\ at' = [at EXCEPT ![h] = l]
    BY DEF Begin
  <1>2. Asking[h] = NoKey /\ Serving[h] = NoKey
    BY <1>1, SilentCall, IdleCall DEF Asking, Serving
  <1>3. Asking' = [Asking EXCEPT ![h] = Asked(l)] /\ Serving' = [Serving EXCEPT ![h] = Served(l)]
    BY <1>1, CallSeen
  <1>4. Serving' = Serving
    BY <1>2, <1>3 DEF Serving
  <1>5. Asking' = [Asking EXCEPT ![h] = Owner[k]]
    BY <1>3 DEF Owner
  <1>6. k \notin Over
    BY DEF Over, IsValid
  <1>7. Contract!Ask(h, k)
    BY <1>2, <1>4, <1>5, <1>6, SameSeen DEF Contract!Ask
  <1>8. PICK x \in HandedOut : x[1] = k
    <2>1. PICK m \in logins : m.key = k
      BY DEF Held
    <2>2. <<k, Address[m.account]>> \in HandedOut
      BY <2>1 DEF HandedOut
    <2>3. <<k, Address[m.account]>>[1] = k
      OBVIOUS
    <2>4. QED
      BY <2>2, <2>3
  <1>9. QED
    BY <1>7, <1>8 DEF Contract!Next

LEMMA RefreshAccessTokenSeen ==
  ASSUME IInv, NEW h \in Calls, NEW k \in Sessions, RefreshAccessToken(h, k)
  PROVE  Contract!Next
  <1> DEFINE row == sessions[k]
             l == [Idle EXCEPT !.pc = "touch", !.key = k, !.snap = row, !.begun = now]
  <1>1. Held(k) /\ IsValid(row) /\ Begin(h, l) /\ UNCHANGED <<now, users, sessions, tokens, logins>>
    BY DEF RefreshAccessToken, tables, given
  <1> HIDE DEF row
  <1>2. l.pc = "touch" /\ l.snap = row
    BY DEF Idle
  <1> HIDE DEF l
  <1>3. Asked(l) = row.user /\ Served(l) = NoKey
    BY <1>2 DEF Asked, Served
  <1>4. QED
    BY <1>1, <1>3, AskSeen DEF row

LEMMA SessionRequestSeen ==
  ASSUME IInv, NEW h \in Calls, NEW k \in Sessions, SessionRequest(h, k)
  PROVE  Contract!Next
  <1> DEFINE u == sessions[k].user
             l == [Idle EXCEPT !.pc = "auth_user", !.user = u, !.begun = now]
  <1>1. /\ Held(k) /\ IsValid(sessions[k]) /\ Begin(h, l)
        /\ UNCHANGED <<now, users, sessions, tokens, logins>>
    BY DEF SessionRequest, tables, given
  <1> HIDE DEF u
  <1>2. l.pc = "auth_user" /\ l.user = u
    BY DEF Idle
  <1> HIDE DEF l
  <1>3. Asked(l) = u /\ Served(l) = NoKey
    BY <1>2 DEF Asked, Served
  <1>4. QED
    BY <1>1, <1>3, AskSeen DEF u

\* The one column that is written says nothing about whose the session is, or whether it
\* is over.
LEMMA UpdateLastUsedSeen ==
  ASSUME IInv, NEW h \in Calls, UpdateLastUsed(h)
  PROVE  Unseen
  <1> DEFINE k == at[h].key
             row == [sessions[k] EXCEPT !.used = TRUE]
             l == [at[h] EXCEPT !.pc = "refresh_user"]
  <1>1. /\ at[h].pc = "touch" /\ at' = [at EXCEPT ![h] = l]
        /\ UNCHANGED <<now, users, tokens, logins>>
        /\ sessions' = [sessions EXCEPT ![k].used = TRUE] \/ UNCHANGED sessions
    BY DEF UpdateLastUsed, Step, given
  <1>2. at[h] \in Local /\ \E i \in Nat : <<k, at[h].snap.user, i>> \in Rows
    BY <1>1, Refreshing
  <1>3. l.pc = "refresh_user" /\ l.snap = at[h].snap
    BY <1>2 DEF Local
  <1> HIDE DEF l
  <1>4. Asked(l) = Asked(at[h]) /\ Served(l) = Served(at[h])
    BY <1>1, <1>3 DEF Asked, Served
  <1>5. Asking' = Asking /\ Serving' = Serving
    BY <1>1, <1>4, SameCall
  <1> HIDE DEF k
  <1>6. k \in Sessions /\ HasSession(k) /\ sessions[k] \in Session
    BY <1>2, RowIs
  <1>7. Owner' = Owner /\ Over' = Over
    <2>1. CASE UNCHANGED sessions
      BY <1>1, <2>1, SameSeen
    <2>2. CASE sessions' = [sessions EXCEPT ![k].used = TRUE]
      <3>1. /\ row \in Session /\ row.user = sessions[k].user
            /\ row.expires = sessions[k].expires /\ row.revoked = sessions[k].revoked
            /\ sessions' = [sessions EXCEPT ![k] = row]
        BY <1>6, <2>2 DEF Session
      <3> HIDE DEF row
      <3>2. /\ Owner' = [Owner EXCEPT ![k] = row.user]
            /\ Over' = (Over \ {k}) \union (IF row.revoked \/ IsExpired(row) THEN {k} ELSE {})
        BY <1>1, <1>6, <3>1, RowSeen
      <3>3. Owner' = Owner
        BY <3>1, <3>2 DEF Owner
      <3>4. k \in Over <=> row.revoked \/ IsExpired(row)
        BY <1>6, <3>1 DEF Over, IsExpired
      <3>5. QED
        BY <3>2, <3>3, <3>4
    <2>3. QED
      BY <1>1, <2>1, <2>2
  <1>8. QED
    BY <1>1, <1>5, <1>7, SameSeen DEF Unseen

LEMMA IssueAccessTokenSeen ==
  ASSUME IInv, NEW h \in Calls, IssueAccessToken(h)
  PROVE  Contract!Next
  <1> DEFINE u == at[h].snap.user
             t == [user |-> u, iat |-> now, key |-> at[h].key, begun |-> at[h].begun]
  <1>1. /\ at[h].pc = "refresh_user" /\ tokens' = tokens \union {t} /\ Done(h)
        /\ UNCHANGED <<now, users, sessions, logins>>
    BY DEF IssueAccessToken, tables
  <1>2. at[h].snap \in Session
    BY <1>1, Refreshing
  <1>3. u \in Users /\ u # NoKey
    BY <1>2 DEF Session, Users, NoKey
  <1>4. Asking[h] = u /\ Serving[h] = NoKey
    BY <1>1 DEF Asking, Serving, Asked, Served
  <1>5. t.user = u
    OBVIOUS
  <1> HIDE DEF t, u
  <1>6. Granted' = Granted \union {u}
    BY <1>1, <1>5 DEF Granted
  <1>7. at' = [at EXCEPT ![h] = Idle] /\ Asked(Idle) = NoKey /\ Served(Idle) = NoKey
    BY <1>1, SilentCall, IdleCall DEF Done, Step
  <1>8. /\ Asking' = [Asking EXCEPT ![h] = Asked(Idle)]
        /\ Serving' = [Serving EXCEPT ![h] = Served(Idle)]
    BY <1>7, CallSeen
  <1>9. Serving' = Serving
    BY <1>4, <1>7, <1>8 DEF Serving
  <1>10. Contract!Grant(h)
    BY <1>1, <1>3, <1>4, <1>6, <1>7, <1>8, <1>9, SameSeen DEF Contract!Grant
  <1>11. QED
    BY <1>10 DEF Contract!Next

LEMMA AuthenticateSeen ==
  ASSUME IInv, NEW h \in Calls, Authenticate(h)
  PROVE  Contract!Next
  <1> DEFINE u == at[h].user
             l == [at[h] EXCEPT !.pc = "served"]
  <1>1. /\ at[h].pc = "auth_user" /\ at' = [at EXCEPT ![h] = l]
        /\ UNCHANGED <<now, users, sessions, tokens, logins>>
    BY DEF Authenticate, Step, tables, given
  <1>2. at[h] \in Local /\ BySession(at[h], Facts)
    BY <1>1 DEF IInv, AtInv, Holds
  <1>3. PICK k \in Sessions, i \in Nat : <<k, u, i>> \in Rows
    BY <1>2 DEF BySession, Facts
  <1>4. l.pc = "served" /\ l.user = u
    BY <1>2 DEF Local
  <1> HIDE DEF l
  <1>5. Asking[h] = u
    BY <1>1 DEF Asking, Asked
  <1> HIDE DEF u
  <1>6. u # NoKey
    <2>1. sessions[k].user = u /\ sessions[k] \in Session
      BY <1>3, RowIs
    <2>2. QED
      BY <2>1 DEF Session, Users, NoKey
  <1>7. Asked(l) = NoKey /\ Served(l) = u
    BY <1>4 DEF Asked, Served
  <1>8. Asking' = [Asking EXCEPT ![h] = Asked(l)] /\ Serving' = [Serving EXCEPT ![h] = Served(l)]
    BY <1>1, CallSeen
  <1>9. Contract!Serve(h)
    BY <1>1, <1>5, <1>6, <1>7, <1>8, SameSeen DEF Contract!Serve
  <1>10. QED
    BY <1>9 DEF Contract!Next

LEMMA BearerRequestSeen ==
  ASSUME IInv, NEW h \in Calls, NEW t \in tokens, BearerRequest(h, t)
  PROVE  Contract!Next
  <1> DEFINE u == t.user
             l == [Idle EXCEPT !.pc = "served", !.user = u, !.begun = now]
  <1>1. Begin(h, l) /\ UNCHANGED <<now, users, sessions, tokens, logins>>
    BY DEF BearerRequest, tables, given
  <1>2. at[h] = Idle /\ at' = [at EXCEPT ![h] = l]
    BY <1>1 DEF Begin
  <1>3. u \in Granted
    BY DEF Granted
  <1> HIDE DEF u
  <1>4. l.pc = "served" /\ l.user = u
    BY DEF Idle
  <1> HIDE DEF l
  <1>5. Asked(l) = NoKey /\ Served(l) = u
    BY <1>4 DEF Asked, Served
  <1>6. Asking[h] = NoKey /\ Serving[h] = NoKey
    BY <1>2, SilentCall, IdleCall DEF Asking, Serving
  <1>7. Asking' = [Asking EXCEPT ![h] = Asked(l)] /\ Serving' = [Serving EXCEPT ![h] = Served(l)]
    BY <1>2, CallSeen
  <1>8. Asking' = Asking
    BY <1>5, <1>6, <1>7 DEF Asking
  <1>9. Contract!ServeBearer(h, u)
    BY <1>1, <1>3, <1>5, <1>6, <1>7, <1>8, SameSeen DEF Contract!ServeBearer
  <1>10. QED
    BY <1>3, <1>9 DEF Contract!Next

LEMMA EndingSeen ==
  ASSUME IInv, NEW h \in Calls, Respond(h) \/ Fail(h)
  PROVE  Contract!Next
  BY SameSeen, EndSeen DEF Respond, Fail, tables, given

LEMMA RestartSeen ==
  ASSUME Restart
  PROVE  Contract!Next
  <1>1. at' = [h \in Calls |-> Idle] /\ UNCHANGED <<now, users, sessions, tokens, logins>>
    BY DEF Restart, tables, given
  <1>2. \A h \in Calls : at'[h] = Idle
    BY <1>1
  <1>3. Asked(Idle) = NoKey /\ Served(Idle) = NoKey
    BY SilentCall, IdleCall
  <1>4. \A h \in Calls : Asked(at[h])' = NoKey /\ Served(at[h])' = NoKey
    BY <1>2, <1>3 DEF Asked, Served
  <1>5. Asking' = [h \in Calls |-> NoKey] /\ Serving' = [h \in Calls |-> NoKey]
    BY <1>4 DEF Asking, Serving
  <1>6. Contract!Stop(Calls)
    BY <1>1, <1>5, SameSeen DEF Contract!Stop
  <1>7. QED
    BY <1>6 DEF Contract!Next

-----------------------------------------------------------------------------
(* The refinement *)

LEMMA ContractInit == Init => Contract!Init
  <1> SUFFICES ASSUME Init PROVE Contract!Init
    OBVIOUS
  <1>1. Registered = {} /\ HandedOut = {} /\ Over = {} /\ Granted = {}
    BY DEF Init, Registered, HandedOut, Over, Granted, HasUser, HasSession
  <1>2. Owner = [k \in Sessions |-> NoKey]
    BY DEF Init, Owner, NoRow
  <1>3. Asking = [h \in Calls |-> NoKey] /\ Serving = [h \in Calls |-> NoKey]
    BY SilentCall, IdleCall DEF Init, Asking, Serving
  <1>4. QED
    BY <1>1, <1>2, <1>3 DEF Contract!Init

LEMMA ContractStep == IInv /\ [Next]_vars => [Contract!Next]_Contract!vars
  <1> SUFFICES ASSUME IInv, [Next]_vars PROVE Contract!Next \/ Unseen
    BY DEF Contract!vars, Unseen
  <1>1. CASE UNCHANGED vars
    BY <1>1, SameSeen, NothingSeen DEF vars
  <1>2. ASSUME NEW s \in States, GoogleLogin(s) \/ \E a \in Accounts : Consent(a, s) PROVE Unseen
    BY <1>2, PagesSeen
  <1>3. ASSUME NEW h \in Calls, Callback(h) PROVE Contract!Next \/ Unseen
    BY <1>3, FindingSeen, UpdateUserSeen, CreateUserSeen, CreateSessionSeen DEF Callback
  <1>4. ASSUME NEW h \in Calls, Request(h) PROVE Contract!Next \/ Unseen
    <2>1. CASE \E c \in Codes : GoogleCallback(h, c)
      BY <2>1, FindingSeen
    <2>2. CASE Refresh(h)
      BY <2>2, RefreshAccessTokenSeen, UpdateLastUsedSeen, IssueAccessTokenSeen DEF Refresh
    <2>3. CASE EchoAuth(h)
      BY <2>3, BearerRequestSeen, SessionRequestSeen, AuthenticateSeen DEF EchoAuth
    <2>4. CASE RevokeFound(h) \/ \E k \in Sessions : LogoutByToken(h, k)
      BY <2>4, LogoutByTokenSeen, RevokeFoundSeen
    <2>5. CASE Respond(h)
      BY <2>5, EndingSeen
    <2>6. QED
      BY <1>4, <2>1, <2>2, <2>3, <2>4, <2>5 DEF Request
  <1>5. ASSUME NEW h \in Calls, Fail(h) PROVE Contract!Next
    BY <1>5, EndingSeen
  <1>6. ASSUME NEW k \in Sessions, Logout(k) PROVE Contract!Next
    BY <1>6, LogoutSeen
  <1>7. CASE CleanupExpired \/ Restart \/ Tick
    BY <1>7, PagesSeen, RestartSeen, TickSeen
  <1>8. QED
    BY <1>1, <1>2, <1>3, <1>4, <1>5, <1>6, <1>7 DEF Next

\* The statements of logins, refreshes, logouts and requests implement LoginContract, however
\* they overlap, whichever fail, and whenever the process is restarted.
THEOREM OAuthImplementsLogin == Spec => ImplementsLogin
  BY Invariance, ContractInit, ContractStep, PTL DEF Spec, ImplementsLogin, Contract!Spec

=============================================================================
