--------------------------- MODULE OAuthLoginProofs ---------------------------
(* Theorems about OAuthLogin, for any number of accounts, pages, users,        *)
(* sessions and calls, any lifetimes and any assignment of addresses.          *)
EXTENDS OAuthLogin, TLAPS

(* What the tables say for good: each of these sets only grows.                *)

Known(c)    == codes[c] # NoCode
Pages       == {<<c, codes[c].account, codes[c].state>> : c \in {d \in Codes : Known(d)}}
Owners      == {<<u, users[u].email>> : u \in {v \in Users : HasUser(v)}}
Rows        == {<<k, sessions[k].user, sessions[k].iat>> : k \in {j \in Sessions : HasSession(j)}}
GoneStates  == {s \in States : store[s].status = "gone"}
LoggedInStates == {s \in States : LoggedInWith(s)}

\* The moments at which a session was good.
Good(b, k)  == b <= now /\ HasSession(k) /\ b <= loggedOut[k] /\ b <= sessions[k].expires
Moments     == {m \in Nat \X Sessions : Good(m[1], m[2])}

Facts == [pages |-> Pages, owners |-> Owners, rows |-> Rows, gone |-> GoneStates,
          entered |-> LoggedInStates, good |-> Moments, tokens |-> tokens]

(* What a call holds, by its next statement; d are the facts it rests on.      *)

Exchanging == {"exchange", "find_oauth", "find_email", "save_user", "create_user",
               "create_session"}
Callbacks  == Exchanging \union {"state_get", "state_delete"}

CallbackHolds(l, a, s, d) ==
  /\ <<l.code, a, s>> \in d.pages
  /\ ~l.fresh => l.pc = "state_get" /\ s \in d.entered
  /\ l.pc \in Exchanging => s \in d.gone
  /\ l.pc = "save_user" => /\ <<l.user, Address[a]>> \in d.owners
                           /\ l.copy \in User /\ l.copy.email = Address[a]
                           /\ Address[l.copy.oauth] = Address[a]
  /\ l.pc = "create_session" => <<l.user, Address[a]>> \in d.owners

BySession(l, d) == \E k \in Sessions, i \in Nat : <<l.begun, k>> \in d.good /\ <<k, l.user, i>> \in d.rows
ByToken(l, d)   == \E t \in d.tokens : t.user = l.user /\ l.begun < t.iat + AccessTTL

Holds(l, d) ==
  /\ l \in Local
  /\ l.pc \in Callbacks => \E a \in Accounts, s \in States : CallbackHolds(l, a, s, d)
  /\ l.pc \in {"touch", "refresh_user"} =>
       /\ l.key \in Sessions /\ l.snap \in Session /\ <<l.begun, l.key>> \in d.good
       /\ \E i \in Nat : <<l.key, l.snap.user, i>> \in d.rows
  /\ l.pc = "revoke" => /\ l.key \in Sessions /\ l.wanted \in Sessions
                        /\ \E u \in Users, i \in Nat : /\ <<l.key, u, i>> \in d.rows
                                                       /\ <<l.wanted, u, i>> \in d.rows
  /\ l.pc = "auth_user" => BySession(l, d)
  /\ l.pc = "served" => BySession(l, d) \/ ByToken(l, d)

Twins(j, k) == HasSession(j) /\ HasSession(k) /\ RefreshToken(sessions[j]) = RefreshToken(sessions[k])

StoreInv    == /\ store \in [States -> Item]
               /\ \A c \in Codes : codes[c].status = "used" => codes[c].state \in GoneStates
CodesInv    == codes \in [Codes -> Code \union {NoCode}]
UsersInv    == /\ users \in [Users -> User \union {NoUser}]
               /\ \A u, v \in Users : HasUser(u) /\ HasUser(v) /\ users[u].email = users[v].email => u = v
               /\ \A u \in Users : HasUser(u) => Address[users[u].oauth] = users[u].email
SessionsInv == /\ sessions \in [Sessions -> Session \union {NoRow}]
               /\ \A j, k \in Sessions : Twins(j, k) => j = k
               /\ loggedOut \in [Sessions -> 0..Never]
               /\ \A k \in Sessions : loggedOut[k] # Never => HasSession(k) /\ sessions[k].revoked
LoginsInv   == /\ logins \in SUBSET Login
               /\ \A l \in logins : \E u \in Users, i \in Nat :
                    <<l.key, u, i>> \in Rows /\ <<u, Address[l.account]>> \in Owners
TokensInv   == /\ tokens \in SUBSET Token
               /\ \A t \in tokens : /\ <<t.begun, t.key>> \in Moments
                                    /\ \E i \in Nat : <<t.key, t.user, i>> \in Rows
AtInv       == /\ at \in [Calls -> Local]
               /\ \A h \in Calls : Holds(at[h], Facts)
TimeInv     == now \in 0..MaxTime /\ started \in Nat

IInv == /\ StoreInv /\ CodesInv /\ UsersInv /\ SessionsInv /\ LoginsInv /\ TokensInv
        /\ AtInv /\ TimeInv

-----------------------------------------------------------------------------
(* What has been said stays true *)

More(d, e) == /\ d.pages \subseteq e.pages /\ d.owners \subseteq e.owners
              /\ d.rows \subseteq e.rows /\ d.gone \subseteq e.gone
              /\ d.entered \subseteq e.entered /\ d.good \subseteq e.good
              /\ d.tokens \subseteq e.tokens

LEMMA StillHolds ==
  ASSUME NEW l, NEW d, NEW e, Holds(l, d), More(d, e)
  PROVE  Holds(l, e)
  <1>1. ASSUME NEW a, NEW s, CallbackHolds(l, a, s, d) PROVE CallbackHolds(l, a, s, e)
    BY <1>1 DEF CallbackHolds, More
  <1>2. /\ BySession(l, d) => BySession(l, e)
        /\ ByToken(l, d) => ByToken(l, e)
    BY DEF BySession, ByToken, More
  <1>3. l.pc \in {"touch", "refresh_user"} =>
          /\ l.key \in Sessions /\ l.snap \in Session /\ <<l.begun, l.key>> \in e.good
          /\ \E i \in Nat : <<l.key, l.snap.user, i>> \in e.rows
    BY DEF Holds, More
  <1>4. l.pc = "revoke" => /\ l.key \in Sessions /\ l.wanted \in Sessions
                           /\ \E u \in Users, i \in Nat : /\ <<l.key, u, i>> \in e.rows
                                                          /\ <<l.wanted, u, i>> \in e.rows
    BY DEF Holds, More
  <1>5. l.pc \in Callbacks => \E a \in Accounts, s \in States : CallbackHolds(l, a, s, e)
    BY <1>1 DEF Holds
  <1>6. QED
    BY <1>2, <1>3, <1>4, <1>5 DEF Holds

\* One call takes a step, or none; what it holds then is true.
Moves(h)  == \E l : at' = [at EXCEPT ![h] = l] /\ Holds(l, Facts')
SomeCall  == UNCHANGED at \/ \E h \in Calls : Moves(h)

LEMMA KeepsAt ==
  ASSUME AtInv, More(Facts, Facts'), SomeCall
  PROVE  AtInv'
  <1>1. \A h \in Calls : at[h] \in Local /\ Holds(at[h], Facts')
    BY StillHolds DEF AtInv
  <1>2. CASE UNCHANGED at
    BY <1>1, <1>2 DEF AtInv
  <1>3. ASSUME NEW h \in Calls, Moves(h) PROVE AtInv'
    <2>1. PICK l : at' = [at EXCEPT ![h] = l] /\ Holds(l, Facts')
      BY <1>3 DEF Moves
    <2>2. l \in Local
      BY <2>1 DEF Holds
    <2>3. at' \in [Calls -> Local] /\ \A g \in Calls : at'[g] = IF g = h THEN l ELSE at[g]
      BY <2>1, <2>2 DEF AtInv
    <2>4. QED
      BY <1>1, <2>1, <2>3 DEF AtInv
  <1>4. QED
    BY <1>2, <1>3 DEF SomeCall

LEMMA IdleHolds ==
  ASSUME NEW d
  PROVE  Idle \in Local /\ Holds(Idle, d)
  <1>1. Idle \in Local
    BY DEF Idle, Local, PCs
  <1>2. Idle.pc = "idle"
    BY DEF Idle
  <1>3. QED
    BY <1>1, <1>2 DEF Holds, Callbacks, Exchanging

-----------------------------------------------------------------------------
(* The tables *)

LEMMA Same ==
  /\ UNCHANGED codes => Pages' = Pages /\ LoggedInStates' = LoggedInStates
  /\ UNCHANGED users => Owners' = Owners
  /\ UNCHANGED sessions => Rows' = Rows
  /\ UNCHANGED store => GoneStates' = GoneStates
  /\ UNCHANGED <<now, sessions, loggedOut>> => Moments' = Moments
  <1>1. UNCHANGED codes => Pages' = Pages /\ LoggedInStates' = LoggedInStates
    BY DEF Pages, Known, LoggedInStates, LoggedInWith
  <1>2. UNCHANGED users => Owners' = Owners
    BY DEF Owners, HasUser
  <1>3. UNCHANGED sessions => Rows' = Rows
    BY DEF Rows, HasSession
  <1>4. UNCHANGED store => GoneStates' = GoneStates
    BY DEF GoneStates
  <1>5. UNCHANGED <<now, sessions, loggedOut>> => Moments' = Moments
    BY DEF Moments, Good, HasSession
  <1>6. QED
    BY <1>1, <1>2, <1>3, <1>4, <1>5

LEMMA MoreFacts ==
  ASSUME Pages \subseteq Pages', Owners \subseteq Owners', Rows \subseteq Rows',
         GoneStates \subseteq GoneStates', LoggedInStates \subseteq LoggedInStates',
         Moments \subseteq Moments', tokens \subseteq tokens'
  PROVE  More(Facts, Facts')
  BY DEF More, Facts

\* Logins and tokens rest on facts, too.
LEMMA Assembled ==
  ASSUME IInv, More(Facts, Facts'), StoreInv', CodesInv', UsersInv', SessionsInv', TimeInv',
         UNCHANGED logins \/ LoginsInv', UNCHANGED tokens \/ TokensInv', AtInv' \/ SomeCall
  PROVE  IInv'
  <1>1. AtInv'
    BY KeepsAt DEF IInv
  <1>2. Rows \subseteq Rows' /\ Owners \subseteq Owners' /\ Moments \subseteq Moments'
    BY DEF More, Facts
  <1>3. UNCHANGED logins => LoginsInv'
    <2>1. ASSUME NEW l \in logins
          PROVE  \E u \in Users, i \in Nat :
                    <<l.key, u, i>> \in Rows' /\ <<u, Address[l.account]>> \in Owners'
      BY <1>2, <2>1 DEF IInv, LoginsInv
    <2>2. QED
      BY <2>1 DEF IInv, LoginsInv
  <1>4. UNCHANGED tokens => TokensInv'
    <2>1. ASSUME NEW t \in tokens
          PROVE  <<t.begun, t.key>> \in Moments' /\ \E i \in Nat : <<t.key, t.user, i>> \in Rows'
      BY <1>2, <2>1 DEF IInv, TokensInv
    <2>2. QED
      BY <2>1 DEF IInv, TokensInv
  <1>5. QED
    BY <1>1, <1>3, <1>4 DEF IInv

LEMMA Untouched ==
  ASSUME IInv
  PROVE  /\ UNCHANGED <<store, codes>> => StoreInv'
         /\ UNCHANGED codes => CodesInv'
         /\ UNCHANGED users => UsersInv'
         /\ UNCHANGED <<sessions, loggedOut>> => SessionsInv'
         /\ UNCHANGED <<now, started>> => TimeInv'
         /\ UNCHANGED now /\ started' = started + 1 => TimeInv'
  <1>1. UNCHANGED <<store, codes>> => StoreInv'
    BY DEF IInv, StoreInv, GoneStates
  <1>2. UNCHANGED codes => CodesInv'
    BY DEF IInv, CodesInv
  <1>3. UNCHANGED users => UsersInv'
    BY DEF IInv, UsersInv, HasUser
  <1>4. UNCHANGED <<sessions, loggedOut>> => SessionsInv'
    BY DEF IInv, SessionsInv, Twins, HasSession, RefreshToken
  <1>5. /\ UNCHANGED <<now, started>> => TimeInv'
        /\ UNCHANGED now /\ started' = started + 1 => TimeInv'
    BY DEF IInv, TimeInv
  <1>6. QED
    BY <1>1, <1>2, <1>3, <1>4, <1>5

\* A step that reads the tables only.
LEMMA Reads ==
  ASSUME IInv, UNCHANGED <<now, store, tables, given>>,
         UNCHANGED started \/ started' = started + 1, AtInv' \/ SomeCall
  PROVE  IInv'
  <1>1. UNCHANGED <<now, store, codes, users, sessions, tokens, logins, loggedOut>>
    BY DEF tables, given
  <1>2. More(Facts, Facts')
    BY <1>1, Same, MoreFacts
  <1>3. QED
    BY <1>1, <1>2, Untouched, Assembled

\* The facts are the same.
LEMMA SameFacts ==
  ASSUME UNCHANGED <<now, store, tables, given>>
  PROVE  Facts' = Facts
  BY Same DEF Facts, tables, given

LEMMA Goes ==
  ASSUME NEW h \in Calls, NEW l, Begin(h, l) \/ Step(h, l)
  PROVE  /\ at' = [at EXCEPT ![h] = l]
         /\ UNCHANGED started \/ started' = started + 1
         /\ Holds(l, Facts') => SomeCall
  BY DEF Begin, Step, Moves, SomeCall

\* A call that ends.
LEMMA Ends ==
  ASSUME NEW h \in Calls, Done(h)
  PROVE  SomeCall /\ UNCHANGED started
  BY IdleHolds DEF Done, Step, Moves, SomeCall

\* A call that goes on, or starts, without writing a table.
LEMMA GoesOn ==
  ASSUME IInv, NEW h \in Calls, NEW l, Begin(h, l) \/ Step(h, l), Holds(l, Facts),
         UNCHANGED <<now, store, tables, given>>
  PROVE  IInv'
  BY Goes, SameFacts, Reads

LEMMA GivesUp ==
  ASSUME IInv, NEW h \in Calls, Done(h), UNCHANGED <<now, store, tables, given>>
  PROVE  IInv'
  BY Ends, Reads

-----------------------------------------------------------------------------
(* The store of states *)

LEMMA Removing ==
  ASSUME IInv, NEW S \in SUBSET States, Remove(S)
  PROVE  store' \in [States -> Item] /\ GoneStates' = GoneStates \union S
  <1>1. ASSUME NEW s \in States
        PROVE  [store[s] EXCEPT !.status = "gone"] \in Item
    BY DEF IInv, StoreInv, Item
  <1>2. store' = [s \in States |-> IF s \in S THEN [store[s] EXCEPT !.status = "gone"]
                                              ELSE store[s]]
    BY DEF Remove
  <1>3. ASSUME NEW s \in States
        PROVE  /\ store'[s] \in Item
               /\ store'[s].status = "gone" <=> store[s].status = "gone" \/ s \in S
    BY <1>1, <1>2 DEF IInv, StoreInv, Item
  <1>4. store' \in [States -> Item]
    BY <1>2, <1>3
  <1>5. QED
    BY <1>3, <1>4 DEF GoneStates

LEMMA KeepsStore ==
  ASSUME IInv, UNCHANGED <<now, codes, users, sessions, tokens, logins, loggedOut, started>>,
         store' \in [States -> Item], GoneStates \subseteq GoneStates', AtInv' \/ SomeCall
  PROVE  IInv'
  <1>1. More(Facts, Facts')
    BY Same, MoreFacts
  <1>2. StoreInv'
    BY DEF IInv, StoreInv
  <1>3. QED
    BY <1>1, <1>2, Untouched, Assembled

LEMMA StoreSteps ==
  ASSUME IInv, CleanupExpired \/ Restart \/ \E s \in States : GoogleLogin(s)
  PROVE  IInv'
  <1>1. CASE CleanupExpired
    <2>1. {s \in States : Expired(s)} \in SUBSET States
      OBVIOUS
    <2>2. QED
      BY <1>1, <2>1, Removing, KeepsStore DEF CleanupExpired, tables, given, SomeCall
  <1>2. CASE Restart
    <2>1. AtInv'
      <3>1. at' = [h \in Calls |-> Idle]
        BY <1>2 DEF Restart
      <3>2. QED
        BY <3>1, IdleHolds DEF AtInv
    <2>2. {s \in States : store[s].status = "stored"} \in SUBSET States
      OBVIOUS
    <2>3. QED
      BY <1>2, <2>1, <2>2, Removing, KeepsStore DEF Restart, tables, given
  <1>3. ASSUME NEW s \in States, GoogleLogin(s) PROVE IInv'
    <2> DEFINE new == [status |-> "stored", expires |-> now + StateTTL]
    <2>1. store[s].status = "new" /\ store' = [store EXCEPT ![s] = new]
      BY <1>3 DEF GoogleLogin, GenerateState, Next1
    <2>2. new \in Item /\ new.status # "gone"
      BY LoginBounds DEF Item, IInv, TimeInv
    <2> HIDE DEF new
    <2>3. /\ store' \in [States -> Item] /\ store'[s] = new
          /\ \A r \in States \ {s} : store'[r] = store[r]
      BY <2>1, <2>2 DEF IInv, StoreInv
    <2>4. GoneStates \subseteq GoneStates'
      BY <2>1, <2>3 DEF GoneStates
    <2>5. QED
      BY <1>3, <2>3, <2>4, KeepsStore DEF GoogleLogin, GenerateState, tables, given, SomeCall
  <1>4. QED
    BY <1>1, <1>2, <1>3

LEMMA TickSteps ==
  ASSUME IInv, Tick
  PROVE  IInv'
  <1>1. /\ now' \in 0..MaxTime /\ now <= now'
        /\ UNCHANGED <<store, codes, users, sessions, at, tokens, logins, loggedOut, started>>
    BY LoginBounds DEF Tick, tables, given, IInv, TimeInv
  <1>2. Moments \subseteq Moments'
    <2>1. ASSUME NEW m \in Moments PROVE m \in Moments'
      <3>1. m[1] \in Nat /\ m[1] <= now'
        BY <1>1, <2>1 DEF Moments, Good, IInv, TimeInv
      <3>2. QED
        BY <1>1, <2>1, <3>1 DEF Moments, Good, HasSession
    <2>2. QED
      BY <2>1
  <1>3. More(Facts, Facts')
    BY <1>1, <1>2, Same, MoreFacts
  <1>4. TimeInv'
    BY <1>1 DEF IInv, TimeInv
  <1>5. QED
    BY <1>1, <1>3, <1>4, Untouched, Assembled DEF SomeCall

-----------------------------------------------------------------------------
(* Google, and the callback up to the user *)

\* A running callback is the one of a code, of an account and of a page.
LEMMA Caller ==
  ASSUME IInv, NEW h \in Calls, at[h].pc \in Callbacks
  PROVE  /\ at[h] \in Local /\ at[h].code \in Codes /\ Known(at[h].code)
         /\ codes[at[h].code] \in Code
         /\ Account(h) \in Accounts /\ Page(h) \in States
         /\ CallbackHolds(at[h], Account(h), Page(h), Facts)
  <1>1. PICK a \in Accounts, s \in States : CallbackHolds(at[h], a, s, Facts)
    BY DEF IInv, AtInv, Holds
  <1>2. <<at[h].code, a, s>> \in Pages
    BY <1>1 DEF CallbackHolds, Facts
  <1>3. /\ at[h].code \in Codes /\ Known(at[h].code)
        /\ codes[at[h].code].account = a /\ codes[at[h].code].state = s
    BY <1>2 DEF Pages
  <1>4. codes[at[h].code] \in Code
    BY <1>3 DEF IInv, CodesInv, Known
  <1>5. QED
    BY <1>1, <1>3, <1>4 DEF Account, Page, IInv, AtInv

LEMMA KeepsCodes ==
  ASSUME IInv, UNCHANGED <<now, store, users, sessions, tokens, logins, loggedOut, started>>,
         NEW c \in Codes, NEW row \in Code, codes' = [codes EXCEPT ![c] = row],
         Known(c) => row.account = codes[c].account /\ row.state = codes[c].state,
         codes[c].status = "used" => row.status = "used",
         row.status = "used" => row.state \in GoneStates,
         \/ UNCHANGED at
         \/ \E h \in Calls : \E l : at' = [at EXCEPT ![h] = l] /\ Holds(l, Facts)
  PROVE  IInv'
  <1>1. row # NoCode
    BY DEF Code, NoCode
  <1>2. /\ codes' \in [Codes -> Code \union {NoCode}] /\ codes'[c] = row
        /\ \A d \in Codes \ {c} : codes'[d] = codes[d]
    BY DEF IInv, CodesInv
  <1>3. Pages \subseteq Pages'
    BY <1>1, <1>2 DEF Pages, Known
  <1>4. LoggedInStates \subseteq LoggedInStates'
    <2>1. ASSUME NEW s \in States, NEW d \in Codes, codes[d].status = "used", codes[d].state = s
          PROVE  \E e \in Codes : codes'[e].status = "used" /\ codes'[e].state = s
      <3>1. d = c => Known(c)
        BY <2>1 DEF Known, NoCode
      <3>2. codes'[d].status = "used" /\ codes'[d].state = s
        BY <1>2, <2>1, <3>1
      <3>3. QED
        BY <3>2
    <2>2. QED
      BY <2>1 DEF LoggedInStates, LoggedInWith
  <1>5. More(Facts, Facts')
    BY <1>3, <1>4, Same, MoreFacts
  <1>6. StoreInv' /\ CodesInv'
    BY <1>2, Same DEF IInv, StoreInv, CodesInv
  <1>7. SomeCall
    BY <1>5, StillHolds DEF SomeCall, Moves
  <1>8. QED
    BY <1>5, <1>6, <1>7, Untouched, Assembled

LEMMA ConsentSteps ==
  ASSUME IInv, NEW a \in Accounts, NEW s \in States, Consent(a, s)
  PROVE  IInv'
  <1> DEFINE row == [status |-> "issued", account |-> a, state |-> s]
  <1>1. PICK c \in Codes : codes[c] = NoCode /\ codes' = [codes EXCEPT ![c] = row]
    BY DEF Consent, Next1
  <1>2. row \in Code /\ row.status = "issued"
    BY DEF Code
  <1>3. ~Known(c) /\ codes[c].status # "used"
    BY <1>1 DEF Known, NoCode
  <1> HIDE DEF row
  <1>4. QED
    BY <1>1, <1>2, <1>3, KeepsCodes DEF Consent, given

LEMMA GoogleCallbackSteps ==
  ASSUME IInv, NEW h \in Calls, NEW c \in Codes, GoogleCallback(h, c)
  PROVE  IInv'
  <1> DEFINE f == ~LoggedInWith(codes[c].state)
             l == [Idle EXCEPT !.pc = "state_get", !.code = c, !.fresh = f]
  <1>1. Known(c) /\ codes[c] \in Code
    BY DEF GoogleCallback, Known, IInv, CodesInv
  <1>2. f \in BOOLEAN
    BY DEF LoggedInWith
  <1>3. ~f => codes[c].state \in LoggedInStates
    BY <1>1 DEF LoggedInStates, Code
  <1>4. <<c, codes[c].account, codes[c].state>> \in Pages
    BY <1>1 DEF Pages
  <1>5. Begin(h, l) /\ UNCHANGED <<now, store, tables, given>>
    BY DEF GoogleCallback
  <1> HIDE DEF f
  <1>6. l \in Local
    BY <1>2 DEF Local, Idle, PCs
  <1>7. l.pc = "state_get" /\ l.code = c /\ l.fresh = f
    BY DEF Idle
  <1> HIDE DEF l
  <1>8. CallbackHolds(l, codes[c].account, codes[c].state, Facts)
    BY <1>3, <1>4, <1>7 DEF CallbackHolds, Facts, Exchanging
  <1>9. Holds(l, Facts)
    BY <1>1, <1>6, <1>7, <1>8 DEF Holds, Code
  <1>10. QED
    BY <1>5, <1>9, GoesOn

LEMMA GetStateSteps ==
  ASSUME IInv, NEW h \in Calls, GetState(h)
  PROVE  IInv'
  <1>0. at[h].pc = "state_get" /\ at[h].pc \in Callbacks
    BY DEF GetState, Callbacks
  <1>1. CASE Alive(Page(h))
    <2> DEFINE l == [at[h] EXCEPT !.pc = "state_delete"]
    <2>1. Page(h) \notin LoggedInStates
      BY <1>0, <1>1, Caller DEF LoggedInStates, LoggedInWith, Alive, IInv, StoreInv, GoneStates
    <2>2. CallbackHolds(at[h], Account(h), Page(h), Facts) /\ at[h].fresh
      BY <1>0, <2>1, Caller DEF CallbackHolds, Facts
    <2>3. /\ l \in Local /\ l.pc = "state_delete" /\ l.code = at[h].code
          /\ l.fresh = at[h].fresh
      BY <1>0, Caller DEF Local, PCs
    <2>4. Step(h, l) /\ UNCHANGED <<now, store, tables, given>>
      BY <1>1 DEF GetState
    <2> HIDE DEF l
    <2>5. CallbackHolds(l, Account(h), Page(h), Facts)
      BY <2>2, <2>3 DEF CallbackHolds, Exchanging
    <2>6. Holds(l, Facts)
      BY <1>0, <2>3, <2>5, Caller DEF Holds, Exchanging
    <2>7. QED
      BY <2>4, <2>6, GoesOn
  <1>2. CASE ~Alive(Page(h))
    BY <1>2, GivesUp DEF GetState
  <1>3. QED
    BY <1>1, <1>2

\* A callback that has the state goes on to another step.
LEMMA Onwards ==
  ASSUME IInv, NEW h \in Calls, at[h].pc \in Callbacks \ {"state_get"},
         NEW pc \in {"exchange", "find_oauth", "find_email", "create_user"},
         NEW d, More(Facts, d), Page(h) \in d.gone
  PROVE  Holds([at[h] EXCEPT !.pc = pc], d)
  <1> DEFINE l == [at[h] EXCEPT !.pc = pc]
  <1>1. CallbackHolds(at[h], Account(h), Page(h), Facts) /\ at[h] \in Local
    BY Caller
  <1>2. l \in Local /\ l.pc = pc /\ l.code = at[h].code /\ l.fresh = at[h].fresh
    BY <1>1 DEF Local, PCs
  <1> HIDE DEF l
  <1>3. CallbackHolds(l, Account(h), Page(h), d)
    BY <1>1, <1>2 DEF CallbackHolds, More
  <1>4. Holds(l, d)
    BY <1>2, <1>3, Caller DEF Holds, Callbacks, Exchanging
  <1>5. QED
    BY <1>4 DEF l

LEMMA PageGone ==
  ASSUME IInv, NEW h \in Calls, at[h].pc \in Exchanging
  PROVE  at[h].pc \in Callbacks \ {"state_get"} /\ Page(h) \in GoneStates
  BY Caller DEF Exchanging, Callbacks, CallbackHolds, Facts

LEMMA DeleteStateSteps ==
  ASSUME IInv, NEW h \in Calls, DeleteState(h)
  PROVE  IInv'
  <1>1. at[h].pc \in Callbacks \ {"state_get"} /\ {Page(h)} \in SUBSET States
    BY Caller DEF DeleteState, Callbacks
  <1>2. /\ store' \in [States -> Item] /\ GoneStates' = GoneStates \union {Page(h)}
        /\ UNCHANGED <<now, codes, users, sessions, tokens, logins, loggedOut, started>>
    BY <1>1, Removing DEF DeleteState, Step, tables, given
  <1>3. More(Facts, Facts') /\ Page(h) \in Facts'.gone
    BY <1>2, Same, MoreFacts DEF Facts
  <1>4. Holds([at[h] EXCEPT !.pc = "exchange"], Facts')
    BY <1>1, <1>3, Onwards
  <1>5. QED
    BY <1>2, <1>4, Goes, KeepsStore DEF DeleteState

LEMMA ExchangeCodeSteps ==
  ASSUME IInv, NEW h \in Calls, ExchangeCode(h)
  PROVE  IInv'
  <1> DEFINE c == at[h].code
             row == [codes[c] EXCEPT !.status = "used"]
  <1>1. /\ at[h].pc = "exchange" /\ at[h].pc \in Exchanging /\ at[h].pc \in Callbacks
        /\ codes' = [codes EXCEPT ![c].status = "used"]
        /\ Step(h, [at[h] EXCEPT !.pc = "find_oauth"])
        /\ UNCHANGED <<now, store, users, sessions, tokens, logins, loggedOut, started>>
    BY DEF ExchangeCode, Step, given, Exchanging, Callbacks
  <1>2. c \in Codes /\ codes[c] \in Code /\ Page(h) = codes[c].state /\ Page(h) \in GoneStates
    BY <1>1, Caller, PageGone DEF Page
  <1>3. /\ row \in Code /\ row.status = "used" /\ row.account = codes[c].account
        /\ row.state = codes[c].state /\ codes' = [codes EXCEPT ![c] = row]
    BY <1>1, <1>2 DEF Code
  <1> HIDE DEF row, c
  <1>4. More(Facts, Facts) /\ Page(h) \in Facts.gone
    BY <1>2 DEF More, Facts
  <1>5. Holds([at[h] EXCEPT !.pc = "find_oauth"], Facts)
    BY <1>1, <1>4, PageGone, Onwards
  <1>6. codes[c].status = "used" => row.status = "used"
    BY <1>3
  <1>7. at' = [at EXCEPT ![h] = [at[h] EXCEPT !.pc = "find_oauth"]]
    BY <1>1 DEF Step
  <1>8. row.status = "used" => row.state \in GoneStates
    BY <1>2, <1>3
  <1>9. Known(c) => row.account = codes[c].account /\ row.state = codes[c].state
    BY <1>3
  <1>10. QED
    BY <1>1, <1>2, <1>3, <1>5, <1>6, <1>7, <1>8, <1>9, KeepsCodes

-----------------------------------------------------------------------------
(* The user of a login *)

LEMMA OwnerIs ==
  ASSUME NEW u, NEW e, <<u, e>> \in Owners
  PROVE  u \in Users /\ HasUser(u) /\ users[u].email = e
  BY DEF Owners

LEMMA FindByOAuthSteps ==
  ASSUME IInv, NEW h \in Calls, FindByOAuth(h)
  PROVE  IInv'
  <1>1. /\ at[h].pc = "find_oauth" /\ at[h].pc \in Exchanging /\ at[h].pc \in Callbacks
        /\ UNCHANGED <<now, store, tables, given>>
    BY DEF FindByOAuth, Exchanging, Callbacks
  <1>2. CASE Step(h, [at[h] EXCEPT !.pc = "find_email"])
    <2>1. More(Facts, Facts) /\ Page(h) \in Facts.gone
      BY <1>1, PageGone DEF More, Facts
    <2>2. Holds([at[h] EXCEPT !.pc = "find_email"], Facts)
      BY <1>1, <2>1, PageGone, Onwards
    <2>3. QED
      BY <1>1, <1>2, <2>2, GoesOn
  <1>3. ASSUME NEW u \in Users, OAuthRow(u, Account(h)),
               Step(h, [at[h] EXCEPT !.pc = "save_user", !.user = u, !.copy = users[u]])
        PROVE  IInv'
    <2> DEFINE row == users[u]
               l == [at[h] EXCEPT !.pc = "save_user", !.user = u, !.copy = row]
    <2>1. HasUser(u) /\ row \in User /\ row.oauth = Account(h)
      BY <1>3 DEF OAuthRow, HasUser, IInv, UsersInv
    <2>2. Address[row.oauth] = row.email /\ <<u, row.email>> \in Owners
      BY <2>1 DEF IInv, UsersInv, Owners
    <2>3. Step(h, l)
      BY <1>3
    <2> HIDE DEF row
    <2>4. CallbackHolds(at[h], Account(h), Page(h), Facts) /\ at[h] \in Local
      BY <1>1, Caller
    <2>5. /\ l \in Local /\ l.pc = "save_user" /\ l.code = at[h].code /\ l.fresh = at[h].fresh
          /\ l.user = u /\ l.copy = row
      BY <2>1, <2>4 DEF Local, PCs
    <2> HIDE DEF l
    <2>6. Page(h) \in GoneStates
      BY <1>1, PageGone
    <2>7. CallbackHolds(l, Account(h), Page(h), Facts)
      BY <1>1, <2>1, <2>2, <2>4, <2>5, <2>6 DEF CallbackHolds, Facts
    <2>8. Holds(l, Facts)
      BY <1>1, <2>5, <2>7, Caller DEF Holds
    <2>9. QED
      BY <1>1, <2>3, <2>8, GoesOn
  <1>4. QED
    BY <1>2, <1>3 DEF FindByOAuth

LEMMA FindByEmailSteps ==
  ASSUME IInv, NEW h \in Calls, FindByEmail(h)
  PROVE  IInv'
  <1>1. /\ at[h].pc = "find_email" /\ at[h].pc \in Exchanging /\ at[h].pc \in Callbacks
        /\ UNCHANGED <<now, store, tables, given>>
    BY DEF FindByEmail, Exchanging, Callbacks
  <1>2. CASE Step(h, [at[h] EXCEPT !.pc = "create_user"])
    <2>1. More(Facts, Facts) /\ Page(h) \in Facts.gone
      BY <1>1, PageGone DEF More, Facts
    <2>2. Holds([at[h] EXCEPT !.pc = "create_user"], Facts)
      BY <1>1, <2>1, PageGone, Onwards
    <2>3. QED
      BY <1>1, <1>2, <2>2, GoesOn
  <1>3. ASSUME NEW u \in Users, HasUser(u), users[u].email = Address[Account(h)],
               Step(h, [at[h] EXCEPT !.pc = "save_user", !.user = u,
                                     !.copy = [users[u] EXCEPT !.oauth = Account(h)]])
        PROVE  IInv'
    <2> DEFINE row == [users[u] EXCEPT !.oauth = Account(h)]
               l == [at[h] EXCEPT !.pc = "save_user", !.user = u, !.copy = row]
    <2>1. Account(h) \in Accounts
      BY <1>1, Caller
    <2>2. row \in User /\ row.oauth = Account(h) /\ row.email = Address[Account(h)]
      BY <1>3, <2>1 DEF HasUser, IInv, UsersInv, User
    <2>3. <<u, Address[Account(h)]>> \in Owners
      BY <1>3 DEF Owners
    <2>4. Step(h, l)
      BY <1>3
    <2> HIDE DEF row
    <2>5. CallbackHolds(at[h], Account(h), Page(h), Facts) /\ at[h] \in Local
      BY <1>1, Caller
    <2>6. /\ l \in Local /\ l.pc = "save_user" /\ l.code = at[h].code /\ l.fresh = at[h].fresh
          /\ l.user = u /\ l.copy = row
      BY <2>2, <2>5 DEF Local, PCs
    <2> HIDE DEF l
    <2>7. Page(h) \in GoneStates
      BY <1>1, PageGone
    <2>8. CallbackHolds(l, Account(h), Page(h), Facts)
      BY <1>1, <2>2, <2>3, <2>5, <2>6, <2>7 DEF CallbackHolds, Facts
    <2>9. Holds(l, Facts)
      BY <1>1, <2>6, <2>8, Caller DEF Holds
    <2>10. QED
      BY <1>1, <2>4, <2>9, GoesOn
  <1>4. QED
    BY <1>2, <1>3 DEF FindByEmail

\* The user is known, and the tokens are signed.
LEMMA SignedHolds ==
  ASSUME IInv, NEW h \in Calls, at[h].pc \in {"save_user", "create_user"},
         NEW u \in Users, NEW d, More(Facts, d), <<u, Address[Account(h)]>> \in d.owners
  PROVE  Holds([at[h] EXCEPT !.pc = "create_session", !.user = u, !.iat = now,
                             !.copy = NoUser], d)
  <1> DEFINE l == [at[h] EXCEPT !.pc = "create_session", !.user = u, !.iat = now,
                                !.copy = NoUser]
  <1>1. at[h].pc \in Exchanging /\ at[h].pc \in Callbacks /\ now \in Nat
    BY DEF Exchanging, Callbacks, IInv, TimeInv
  <1>2. CallbackHolds(at[h], Account(h), Page(h), Facts) /\ at[h] \in Local
    BY <1>1, Caller
  <1>3. /\ l \in Local /\ l.pc = "create_session" /\ l.code = at[h].code
        /\ l.fresh = at[h].fresh /\ l.user = u
    BY <1>1, <1>2 DEF Local, PCs
  <1> HIDE DEF l
  <1>4. Page(h) \in d.gone
    BY <1>1, PageGone DEF More, Facts
  <1>5. CallbackHolds(l, Account(h), Page(h), d)
    BY <1>2, <1>3, <1>4 DEF CallbackHolds, More
  <1>6. Holds(l, d)
    BY <1>1, <1>3, <1>5, Caller DEF Holds
  <1>7. QED
    BY <1>6 DEF l

LEMMA KeepsUsers ==
  ASSUME IInv, UNCHANGED <<now, store, codes, sessions, tokens, logins, loggedOut, started>>,
         NEW h \in Calls, at[h].pc \in {"save_user", "create_user"},
         NEW u \in Users, NEW row \in User, users' = [users EXCEPT ![u] = row],
         row.email = Address[Account(h)], Address[row.oauth] = row.email,
         HasUser(u) => users[u].email = row.email,
         ~HasUser(u) => EmailFree(row.email),
         SignTokens(h, u)
  PROVE  IInv'
  <1>1. row # NoUser
    BY DEF User, NoUser
  <1>2. /\ users' \in [Users -> User \union {NoUser}] /\ users'[u] = row
        /\ \A v \in Users \ {u} : users'[v] = users[v]
    BY DEF IInv, UsersInv
  <1>3. Owners \subseteq Owners' /\ <<u, row.email>> \in Owners'
    BY <1>1, <1>2 DEF Owners, HasUser
  <1>4. More(Facts, Facts') /\ <<u, Address[Account(h)]>> \in Facts'.owners
    BY <1>3, Same, MoreFacts DEF Facts
  <1>5. ASSUME NEW v \in Users, v # u, HasUser(v) PROVE users[v].email # row.email
    <2>1. CASE HasUser(u)
      BY <1>5, <2>1 DEF IInv, UsersInv
    <2>2. CASE ~HasUser(u)
      BY <1>5, <2>2 DEF EmailFree
    <2>3. QED
      BY <2>1, <2>2
  <1>6. UsersInv'
    <2>1. ASSUME NEW v \in Users, NEW w \in Users, HasUser(v)', HasUser(w)',
                 users'[v].email = users'[w].email
          PROVE  v = w
      BY <1>2, <1>5, <2>1 DEF IInv, UsersInv, HasUser
    <2>2. \A v \in Users : HasUser(v)' => Address[users'[v].oauth] = users'[v].email
      BY <1>2 DEF IInv, UsersInv, HasUser
    <2>3. QED
      BY <1>2, <2>1, <2>2 DEF UsersInv
  <1>7. SomeCall
    <2>1. Holds([at[h] EXCEPT !.pc = "create_session", !.user = u, !.iat = now,
                              !.copy = NoUser], Facts')
      BY <1>4, SignedHolds
    <2>2. QED
      BY <2>1, Goes DEF SignTokens
  <1>8. QED
    BY <1>4, <1>6, <1>7, Untouched, Assembled

LEMMA UserSteps ==
  ASSUME IInv, NEW h \in Calls, UpdateUser(h) \/ CreateUser(h)
  PROVE  IInv'
  <1>0. at[h].pc \in {"save_user", "create_user"} /\ at[h].pc \in Callbacks
    BY DEF UpdateUser, CreateUser, Callbacks, Exchanging
  <1>1. CASE UpdateUser(h)
    <2> DEFINE u == at[h].user
               row == at[h].copy
    <2>1. at[h].pc = "save_user" /\ CallbackHolds(at[h], Account(h), Page(h), Facts)
      BY <1>0, <1>1, Caller DEF UpdateUser
    <2>2. /\ <<u, Address[Account(h)]>> \in Owners /\ row \in User
          /\ row.email = Address[Account(h)] /\ Address[row.oauth] = Address[Account(h)]
      BY <2>1 DEF CallbackHolds, Facts
    <2>3. u \in Users /\ HasUser(u) /\ users[u].email = row.email
      BY <2>2, OwnerIs
    <2>4. /\ users' = [users EXCEPT ![u] = row] /\ SignTokens(h, u)
          /\ UNCHANGED <<now, store, codes, sessions, tokens, logins, loggedOut, started>>
      BY <1>1 DEF UpdateUser, SignTokens, Step, given
    <2> HIDE DEF u, row
    <2>5. QED
      BY <1>0, <2>2, <2>3, <2>4, KeepsUsers
  <1>2. CASE CreateUser(h)
    <2> DEFINE row == [email |-> Address[Account(h)], oauth |-> Account(h)]
    <2>1. PICK u \in Users : InsertUser(u, row) /\ SignTokens(h, u)
      BY <1>2 DEF CreateUser
    <2>2. row \in User /\ row.email = Address[Account(h)] /\ Address[row.oauth] = row.email
      BY <1>0, Caller, LoginNames DEF User
    <2>3. /\ UNCHANGED <<now, store, codes, sessions, tokens, logins, loggedOut, started>>
          /\ users' = [users EXCEPT ![u] = row] /\ ~HasUser(u) /\ EmailFree(row.email)
      BY <1>2, <2>1 DEF CreateUser, InsertUser, SignTokens, Step, given, Next1
    <2> HIDE DEF row
    <2>4. QED
      BY <1>0, <2>1, <2>2, <2>3, KeepsUsers
  <1>3. QED
    BY <1>1, <1>2

-----------------------------------------------------------------------------
(* Sessions *)

LEMMA KeepsSessions ==
  ASSUME IInv, UNCHANGED <<now, store, codes, users>>, SessionsInv',
         Rows \subseteq Rows', Moments \subseteq Moments', tokens \subseteq tokens',
         UNCHANGED started \/ started' = started + 1,
         UNCHANGED logins \/ LoginsInv', UNCHANGED tokens \/ TokensInv', AtInv' \/ SomeCall
  PROVE  IInv'
  <1>1. More(Facts, Facts')
    BY Same, MoreFacts
  <1>2. QED
    BY <1>1, Untouched, Assembled

LEMMA RowIs ==
  ASSUME IInv, NEW k, NEW u, NEW i, <<k, u, i>> \in Rows
  PROVE  /\ k \in Sessions /\ HasSession(k) /\ sessions[k] \in Session
         /\ sessions[k].user = u /\ sessions[k].iat = i
  BY DEF Rows, HasSession, IInv, SessionsInv

\* One row is written: a new one, or one whose token and expiry stay.
LEMMA WritesRow ==
  ASSUME IInv, NEW k \in Sessions, NEW row \in Session, sessions' = [sessions EXCEPT ![k] = row],
         \/ HasSession(k) /\ RefreshToken(row) = RefreshToken(sessions[k])
         \/ ~HasSession(k) /\ TokenFree(row),
         HasSession(k) => row.expires = sessions[k].expires,
         loggedOut' \in [Sessions -> 0..Never],
         \A j \in Sessions : loggedOut'[j] = loggedOut[j] \/ loggedOut'[j] = now,
         \A j \in Sessions : loggedOut'[j] # Never => HasSession(j)' /\ sessions'[j].revoked,
         UNCHANGED now
  PROVE  SessionsInv' /\ Rows \subseteq Rows' /\ Moments \subseteq Moments'
                      /\ <<k, row.user, row.iat>> \in Rows'
  <1>1. row # NoRow /\ row.user \in Users /\ row.iat \in Nat
    <2>1. row.user \in Users /\ row.iat \in Nat
      BY DEF Session
    <2>2. NoRow.user \notin Users
      BY DEF NoRow, NoKey, Users
    <2>3. QED
      BY <2>1, <2>2
  <1>2. /\ sessions' \in [Sessions -> Session \union {NoRow}] /\ sessions'[k] = row
        /\ \A j \in Sessions \ {k} : sessions'[j] = sessions[j]
    BY DEF IInv, SessionsInv
  <1>3. ASSUME NEW j \in Sessions, j # k, HasSession(j)
        PROVE  RefreshToken(sessions[j]) # RefreshToken(row)
    BY <1>3 DEF TokenFree, Twins, IInv, SessionsInv
  <1>4. SessionsInv'
    <2>1. ASSUME NEW i \in Sessions, NEW j \in Sessions, HasSession(i)', HasSession(j)',
                 RefreshToken(sessions'[i]) = RefreshToken(sessions'[j])
          PROVE  i = j
      <3>1. CASE i = k /\ j # k
        BY <1>2, <1>3, <2>1, <3>1 DEF HasSession
      <3>2. CASE i # k /\ j = k
        BY <1>2, <1>3, <2>1, <3>2 DEF HasSession
      <3>3. CASE i # k /\ j # k
        BY <1>2, <2>1, <3>3 DEF Twins, HasSession, IInv, SessionsInv
      <3>4. QED
        BY <3>1, <3>2, <3>3
    <2>2. ASSUME NEW i \in Sessions, NEW j \in Sessions, Twins(i, j)'
          PROVE  i = j
      BY <2>1, <2>2 DEF Twins, RefreshToken
    <2>3. QED
      BY <1>2, <2>2 DEF SessionsInv
  <1>5. Rows \subseteq Rows' /\ <<k, row.user, row.iat>> \in Rows'
    <2>1. HasSession(k)'
      BY <1>1, <1>2 DEF HasSession
    <2>2. <<k, row.user, row.iat>> \in Rows'
      BY <1>2, <2>1 DEF Rows
    <2>3. ASSUME NEW j \in Sessions, HasSession(j)
          PROVE  <<j, sessions[j].user, sessions[j].iat>> \in Rows'
      <3>1. CASE j = k
        BY <2>2, <2>3, <3>1 DEF RefreshToken
      <3>2. CASE j # k
        BY <1>2, <2>3, <3>2 DEF Rows, HasSession
      <3>3. QED
        BY <3>1, <3>2
    <2>4. QED
      BY <2>2, <2>3 DEF Rows
  <1>6. Moments \subseteq Moments'
    <2>1. ASSUME NEW m \in Moments PROVE m \in Moments'
      <3>1. m[1] \in Nat /\ m[2] \in Sessions /\ Good(m[1], m[2]) /\ m \in Nat \X Sessions
        BY <2>1 DEF Moments
      <3>2. HasSession(m[2])' /\ sessions'[m[2]].expires = sessions[m[2]].expires
        BY <1>1, <1>2, <3>1 DEF Good, HasSession
      <3>3. m[1] <= loggedOut'[m[2]]
        BY <3>1 DEF Good
      <3>4. Good(m[1], m[2])'
        BY <3>1, <3>2, <3>3 DEF Good, HasSession
      <3>5. QED
        BY <3>1, <3>4 DEF Moments
    <2>2. QED
      BY <2>1
  <1>7. QED
    BY <1>4, <1>5, <1>6

LEMMA CreateSessionSteps ==
  ASSUME IInv, NEW h \in Calls, CreateSession(h)
  PROVE  IInv'
  <1> DEFINE row == NewSession(at[h].user, at[h].iat)
  <1>1. at[h].pc = "create_session" /\ at[h].pc \in Callbacks
    BY DEF CreateSession, Callbacks, Exchanging
  <1>2. /\ <<at[h].user, Address[Account(h)]>> \in Owners /\ at[h].iat \in Nat
        /\ Account(h) \in Accounts
    BY <1>1, Caller DEF CallbackHolds, Facts, Local
  <1>3. row \in Session /\ row.user = at[h].user /\ row.iat = at[h].iat
    BY <1>2, OwnerIs, LoginBounds DEF NewSession, Session
  <1>4. PICK k \in Sessions :
          /\ InsertSession(k, row)
          /\ \/ logins' = logins \union {[key |-> k, account |-> Account(h)]}
             \/ UNCHANGED logins
    BY DEF CreateSession
  <1>5. /\ UNCHANGED <<now, store, codes, users, tokens, loggedOut>> /\ Done(h)
        /\ ~HasSession(k) /\ TokenFree(row) /\ sessions' = [sessions EXCEPT ![k] = row]
    BY <1>4 DEF CreateSession, InsertSession, Next1
  <1> HIDE DEF row
  <1>6. \A j \in Sessions : loggedOut'[j] # Never => HasSession(j)' /\ sessions'[j].revoked
    <2>1. ASSUME NEW j \in Sessions, loggedOut'[j] # Never
          PROVE  HasSession(j) /\ sessions[j].revoked /\ sessions'[j] = sessions[j]
      <3>1. HasSession(j) /\ sessions[j].revoked
        BY <1>5, <2>1 DEF IInv, SessionsInv
      <3>2. QED
        BY <1>5, <3>1 DEF IInv, SessionsInv
    <2>2. QED
      BY <2>1 DEF HasSession
  <1>7. /\ SessionsInv' /\ Rows \subseteq Rows' /\ Moments \subseteq Moments'
        /\ <<k, row.user, row.iat>> \in Rows'
    <2>1. loggedOut' \in [Sessions -> 0..Never]
      BY <1>5 DEF IInv, SessionsInv
    <2>2. QED
      BY <1>3, <1>5, <1>6, <2>1, WritesRow
  <1>8. UNCHANGED logins \/ LoginsInv'
    <2>1. ASSUME logins' = logins \union {[key |-> k, account |-> Account(h)]} PROVE LoginsInv'
      <3>1. logins' \in SUBSET Login
        BY <1>2, <2>1 DEF Login, IInv, LoginsInv
      <3>2. Owners' = Owners
        BY <1>5, Same
      <3>3. ASSUME NEW l \in logins'
            PROVE  \E u \in Users, i \in Nat :
                     <<l.key, u, i>> \in Rows' /\ <<u, Address[l.account]>> \in Owners'
        <4>1. CASE l \in logins
          BY <1>7, <3>2, <4>1 DEF IInv, LoginsInv
        <4>2. CASE l = [key |-> k, account |-> Account(h)]
          BY <1>2, <1>3, <1>7, <3>2, <4>2, OwnerIs
        <4>3. QED
          BY <2>1, <4>1, <4>2
      <3>4. QED
        BY <3>1, <3>3 DEF LoginsInv
    <2>2. QED
      BY <1>4, <2>1
  <1>9. QED
    BY <1>5, <1>7, <1>8, Ends, KeepsSessions

-----------------------------------------------------------------------------
(* Refresh, logout, and requests *)

LEMMA HeldRow ==
  ASSUME IInv, NEW k \in Sessions, Held(k)
  PROVE  /\ HasSession(k) /\ sessions[k] \in Session
         /\ <<k, sessions[k].user, sessions[k].iat>> \in Rows
  <1>1. PICK l \in logins : l.key = k
    BY DEF Held
  <1>2. PICK u, i : <<k, u, i>> \in Rows
    BY <1>1 DEF IInv, LoginsInv
  <1>3. QED
    BY <1>2, RowIs

\* A session that is valid is not logged out, and has not expired.
LEMMA ValidNow ==
  ASSUME IInv, NEW k \in Sessions, HasSession(k), sessions[k] \in Session, IsValid(sessions[k])
  PROVE  <<now, k>> \in Moments
  <1>1. now \in 0..MaxTime /\ ~sessions[k].revoked /\ ~(now > sessions[k].expires)
    BY DEF IsValid, IsExpired, IInv, TimeInv
  <1>2. loggedOut[k] = Never
    BY <1>1 DEF IInv, SessionsInv
  <1>3. now \in Nat /\ now <= now /\ now <= Never /\ now <= sessions[k].expires
    BY <1>1, LoginBounds DEF Never, Session
  <1>4. QED
    BY <1>2, <1>3 DEF Moments, Good

LEMMA RefreshAccessTokenSteps ==
  ASSUME IInv, NEW h \in Calls, NEW k \in Sessions, RefreshAccessToken(h, k)
  PROVE  IInv'
  <1> DEFINE row == sessions[k]
             l == [Idle EXCEPT !.pc = "touch", !.key = k, !.snap = row, !.begun = now]
  <1>1. /\ HasSession(k) /\ row \in Session /\ <<k, row.user, row.iat>> \in Rows
        /\ <<now, k>> \in Moments
    BY HeldRow, ValidNow DEF RefreshAccessToken
  <1>2. Begin(h, l) /\ UNCHANGED <<now, store, tables, given>>
    BY DEF RefreshAccessToken
  <1> HIDE DEF row
  <1>3. now \in Nat /\ row.iat \in Nat
    BY <1>1 DEF IInv, TimeInv, Session
  <1>4. l \in Local
    BY <1>1, <1>3 DEF Local, Idle, PCs
  <1>5. l.pc = "touch" /\ l.key = k /\ l.snap = row /\ l.begun = now
    BY DEF Idle
  <1> HIDE DEF l
  <1>6. <<l.begun, l.key>> \in Facts.good /\ <<l.key, l.snap.user, row.iat>> \in Facts.rows
    BY <1>1, <1>5 DEF Facts
  <1>7. Holds(l, Facts)
    BY <1>1, <1>3, <1>4, <1>5, <1>6 DEF Holds, Callbacks, Exchanging
  <1>8. QED
    BY <1>2, <1>7, GoesOn

\* What a refresh rests on.
LEMMA Refreshing ==
  ASSUME IInv, NEW h \in Calls, at[h].pc \in {"touch", "refresh_user"}
  PROVE  /\ at[h] \in Local /\ at[h].key \in Sessions /\ at[h].snap \in Session
         /\ <<at[h].begun, at[h].key>> \in Moments
         /\ \E i \in Nat : <<at[h].key, at[h].snap.user, i>> \in Rows
  <1>1. Facts.good = Moments /\ Facts.rows = Rows
    BY DEF Facts
  <1>2. QED
    BY <1>1 DEF IInv, AtInv, Holds

LEMMA UpdateLastUsedSteps ==
  ASSUME IInv, NEW h \in Calls, UpdateLastUsed(h)
  PROVE  IInv'
  <1> DEFINE k == at[h].key
             row == [sessions[k] EXCEPT !.used = TRUE]
             l == [at[h] EXCEPT !.pc = "refresh_user"]
  <1>1. /\ at[h].pc = "touch" /\ Step(h, l)
        /\ UNCHANGED <<now, store, codes, users, tokens, logins, loggedOut, started>>
        /\ sessions' = [sessions EXCEPT ![k].used = TRUE] \/ UNCHANGED sessions
    BY DEF UpdateLastUsed, Step, given
  <1>2. /\ at[h] \in Local /\ k \in Sessions /\ HasSession(k) /\ sessions[k] \in Session
    <2>1. PICK i \in Nat : <<k, at[h].snap.user, i>> \in Rows
      BY <1>1, Refreshing
    <2> HIDE DEF k
    <2>2. k \in Sessions /\ HasSession(k) /\ sessions[k] \in Session
      BY <2>1, RowIs
    <2>3. QED
      BY <1>1, <2>2, Refreshing DEF k
  <1>3. SessionsInv' /\ Rows \subseteq Rows' /\ Moments \subseteq Moments'
    <2>1. CASE UNCHANGED sessions
      BY <1>1, <2>1, Same, Untouched
    <2>2. CASE sessions' = [sessions EXCEPT ![k].used = TRUE]
      <3>1. /\ row \in Session /\ RefreshToken(row) = RefreshToken(sessions[k])
            /\ row.expires = sessions[k].expires /\ row.revoked = sessions[k].revoked
            /\ sessions' = [sessions EXCEPT ![k] = row]
        BY <1>2, <2>2 DEF Session, RefreshToken
      <3> HIDE DEF row, k
      <3>2. ASSUME NEW j \in Sessions, loggedOut'[j] # Never
            PROVE  HasSession(j)' /\ sessions'[j].revoked
        <4>1. HasSession(j) /\ sessions[j].revoked
          BY <1>1, <3>2 DEF IInv, SessionsInv
        <4>2. sessions'[j].revoked = sessions[j].revoked
          BY <1>2, <3>1 DEF IInv, SessionsInv
        <4>3. row # NoRow
          <5>1. NoRow.user \notin Users
            BY DEF NoRow, NoKey, Users
          <5>2. row.user \in Users
            BY <3>1 DEF Session
          <5>3. QED
            BY <5>1, <5>2
        <4>4. sessions'[j] = sessions[j] \/ sessions'[j] = row
          BY <3>1 DEF IInv, SessionsInv
        <4>5. HasSession(j)'
          BY <4>1, <4>3, <4>4 DEF HasSession
        <4>6. QED
          BY <4>1, <4>2, <4>5
      <3>3. loggedOut' \in [Sessions -> 0..Never]
        BY <1>1 DEF IInv, SessionsInv
      <3>4. QED
        BY <1>1, <1>2, <3>1, <3>2, <3>3, WritesRow
    <2>3. QED
      BY <1>1, <2>1, <2>2
  <1>4. SomeCall
    <2>1. /\ l \in Local /\ l.pc = "refresh_user" /\ l.key = k /\ l.snap = at[h].snap
          /\ l.begun = at[h].begun
      BY <1>2 DEF Local, PCs
    <2> HIDE DEF l, k
    <2>2. <<l.begun, l.key>> \in Moments /\ l.snap \in Session /\ l.key \in Sessions
      BY <1>1, <2>1, Refreshing DEF k
    <2>3. \E i \in Nat : <<l.key, l.snap.user, i>> \in Rows
      BY <1>1, <2>1, Refreshing DEF k
    <2>4. Facts'.good = Moments' /\ Facts'.rows = Rows'
      BY DEF Facts
    <2>5. Holds(l, Facts')
      BY <1>3, <2>1, <2>2, <2>3, <2>4 DEF Holds, Callbacks, Exchanging
    <2>6. QED
      BY <1>1, <2>5, Goes
  <1>5. QED
    BY <1>1, <1>3, <1>4, KeepsSessions

LEMMA IssueAccessTokenSteps ==
  ASSUME IInv, NEW h \in Calls, IssueAccessToken(h)
  PROVE  IInv'
  <1> DEFINE t == [user |-> at[h].snap.user, iat |-> now, key |-> at[h].key, begun |-> at[h].begun]
  <1>1. /\ at[h].pc = "refresh_user" /\ tokens' = tokens \union {t} /\ Done(h)
        /\ UNCHANGED <<now, store, codes, users, sessions, logins, loggedOut, started>>
    BY DEF IssueAccessToken, Done, Step, tables
  <1>2. /\ at[h] \in Local /\ at[h].key \in Sessions /\ at[h].snap \in Session
        /\ <<at[h].begun, at[h].key>> \in Moments
        /\ \E i \in Nat : <<at[h].key, at[h].snap.user, i>> \in Rows
    BY <1>1, Refreshing
  <1>3. t \in Token
    BY <1>2 DEF Token, Local, Session, IInv, TimeInv
  <1>4. t.key = at[h].key /\ t.begun = at[h].begun /\ t.user = at[h].snap.user
    OBVIOUS
  <1> HIDE DEF t
  <1>5. Moments' = Moments /\ Rows' = Rows
    BY <1>1, Same
  <1>6. TokensInv'
    <2>1. tokens' \in SUBSET Token
      BY <1>1, <1>3 DEF IInv, TokensInv
    <2>2. ASSUME NEW s \in tokens'
          PROVE  <<s.begun, s.key>> \in Moments' /\ \E i \in Nat : <<s.key, s.user, i>> \in Rows'
      <3>1. CASE s \in tokens
        BY <1>5, <3>1 DEF IInv, TokensInv
      <3>2. CASE s = t
        BY <1>2, <1>4, <1>5, <3>2
      <3>3. QED
        BY <1>1, <3>1, <3>2
    <2>3. QED
      BY <2>1, <2>2 DEF TokensInv
  <1>7. SessionsInv'
    BY <1>1, Untouched
  <1>8. QED
    BY <1>1, <1>5, <1>6, <1>7, Ends, KeepsSessions

\* The session that is revoked is the one whose holder logs out.
LEMMA Revoking ==
  ASSUME IInv, NEW k \in Sessions, HasSession(k), Revoke(k, k),
         UNCHANGED <<now, store, codes, users, tokens, logins, started>>, SomeCall
  PROVE  IInv'
  <1> DEFINE row == [sessions[k] EXCEPT !.revoked = TRUE]
  <1>1. sessions[k] \in Session
    BY DEF HasSession, IInv, SessionsInv
  <1>2. /\ row \in Session /\ RefreshToken(row) = RefreshToken(sessions[k])
        /\ row.expires = sessions[k].expires /\ row.revoked
        /\ sessions' = [sessions EXCEPT ![k] = row]
    BY <1>1 DEF Revoke, Session, RefreshToken
  <1> HIDE DEF row
  <1>3. now \in 0..Never
    BY LoginBounds DEF IInv, TimeInv, Never
  <1>4. /\ loggedOut' \in [Sessions -> 0..Never]
        /\ \A j \in Sessions : loggedOut'[j] = loggedOut[j] \/ loggedOut'[j] = now
        /\ \A j \in Sessions \ {k} : loggedOut'[j] = loggedOut[j]
    BY <1>3 DEF Revoke, IInv, SessionsInv
  <1>5. ASSUME NEW j \in Sessions, loggedOut'[j] # Never
        PROVE  HasSession(j)' /\ sessions'[j].revoked
    <2>1. CASE j = k
      <3>1. sessions'[k] = row /\ row.user \in Users
        BY <1>2 DEF IInv, SessionsInv, Session
      <3>2. NoRow.user \notin Users
        BY DEF NoRow, NoKey, Users
      <3>3. QED
        BY <1>2, <2>1, <3>1, <3>2 DEF HasSession
    <2>2. CASE j # k
      <3>1. HasSession(j) /\ sessions[j].revoked /\ sessions'[j] = sessions[j]
        BY <1>2, <1>4, <1>5, <2>2 DEF IInv, SessionsInv
      <3>2. QED
        BY <3>1 DEF HasSession
    <2>3. QED
      BY <2>1, <2>2
  <1>6. SessionsInv' /\ Rows \subseteq Rows' /\ Moments \subseteq Moments'
    BY <1>2, <1>4, <1>5, WritesRow
  <1>7. QED
    BY <1>6, KeepsSessions

LEMMA LogoutSteps ==
  ASSUME IInv, NEW k \in Sessions, Logout(k)
  PROVE  IInv'
  BY HeldRow, Revoking DEF Logout, SomeCall

LEMMA LogoutByTokenSteps ==
  ASSUME IInv, NEW h \in Calls, NEW k \in Sessions, LogoutByToken(h, k)
  PROVE  IInv'
  <1>1. PICK j \in Sessions :
          /\ HasSession(j) /\ RefreshToken(sessions[j]) = RefreshToken(sessions[k])
          /\ Begin(h, [Idle EXCEPT !.pc = "revoke", !.key = j, !.wanted = k])
    BY DEF LogoutByToken
  <1> DEFINE l == [Idle EXCEPT !.pc = "revoke", !.key = j, !.wanted = k]
             u == sessions[k].user
             i == sessions[k].iat
  <1>2. HasSession(k) /\ UNCHANGED <<now, store, tables, given>>
    BY DEF LogoutByToken
  <1>3. u \in Users /\ i \in Nat
    BY <1>2 DEF HasSession, IInv, SessionsInv, Session
  <1>4. <<k, u, i>> \in Rows /\ <<j, u, i>> \in Rows
    BY <1>1, <1>2 DEF Rows, RefreshToken
  <1>5. Begin(h, l)
    BY <1>1
  <1>6. l \in Local /\ l.pc = "revoke" /\ l.key = j /\ l.wanted = k
    BY DEF Local, Idle, PCs
  <1> HIDE DEF l, u, i
  <1>7. Facts.rows = Rows
    BY DEF Facts
  <1>8. Holds(l, Facts)
    BY <1>3, <1>4, <1>6, <1>7 DEF Holds, Callbacks, Exchanging
  <1>9. QED
    BY <1>2, <1>5, <1>8, GoesOn

LEMMA RevokeFoundSteps ==
  ASSUME IInv, NEW h \in Calls, RevokeFound(h)
  PROVE  IInv'
  <1> DEFINE j == at[h].key
             k == at[h].wanted
  <1>1. /\ at[h].pc = "revoke" /\ Revoke(j, k) /\ Done(h)
        /\ UNCHANGED <<now, store, codes, users, tokens, logins, started>>
    BY DEF RevokeFound, Done, Step
  <1>2. PICK u \in Users, i \in Nat : <<j, u, i>> \in Facts.rows /\ <<k, u, i>> \in Facts.rows
    BY <1>1 DEF IInv, AtInv, Holds
  <1>3. <<j, u, i>> \in Rows /\ <<k, u, i>> \in Rows
    BY <1>2 DEF Facts
  <1> HIDE DEF j, k
  <1>4. Twins(j, k) /\ j \in Sessions /\ k \in Sessions /\ HasSession(k)
    BY <1>3, RowIs DEF Twins, RefreshToken
  <1>5. j = k
    BY <1>4 DEF IInv, SessionsInv
  <1>6. QED
    BY <1>1, <1>4, <1>5, Ends, Revoking

LEMMA BearerRequestSteps ==
  ASSUME IInv, NEW h \in Calls, NEW t \in tokens, BearerRequest(h, t)
  PROVE  IInv'
  <1> DEFINE l == [Idle EXCEPT !.pc = "served", !.user = t.user, !.begun = now]
  <1>1. Begin(h, l) /\ UNCHANGED <<now, store, tables, given>> /\ now < t.iat + AccessTTL
    BY DEF BearerRequest, TokenAccepted
  <1>2. t \in Token /\ now \in Nat
    BY DEF IInv, TokensInv, TimeInv
  <1>3. l \in Local /\ l.pc = "served" /\ l.user = t.user /\ l.begun = now
    BY <1>2 DEF Local, Idle, PCs, Token
  <1> HIDE DEF l
  <1>4. Facts.tokens = tokens
    BY DEF Facts
  <1>5. ByToken(l, Facts)
    BY <1>1, <1>3, <1>4 DEF ByToken
  <1>6. Holds(l, Facts)
    BY <1>3, <1>5 DEF Holds, Callbacks, Exchanging
  <1>7. QED
    BY <1>1, <1>6, GoesOn

LEMMA SessionRequestSteps ==
  ASSUME IInv, NEW h \in Calls, NEW k \in Sessions, SessionRequest(h, k)
  PROVE  IInv'
  <1> DEFINE row == sessions[k]
             l == [Idle EXCEPT !.pc = "auth_user", !.user = row.user, !.begun = now]
  <1>1. /\ HasSession(k) /\ row \in Session /\ <<k, row.user, row.iat>> \in Rows
        /\ <<now, k>> \in Moments
    BY HeldRow, ValidNow DEF SessionRequest
  <1>2. Begin(h, l) /\ UNCHANGED <<now, store, tables, given>>
    BY DEF SessionRequest
  <1> HIDE DEF row
  <1>3. now \in Nat /\ row.user \in Users /\ row.iat \in Nat
    BY <1>1 DEF IInv, TimeInv, Session
  <1>4. l \in Local /\ l.pc = "auth_user" /\ l.user = row.user /\ l.begun = now
    BY <1>3 DEF Local, Idle, PCs
  <1> HIDE DEF l
  <1>5. Facts.good = Moments /\ Facts.rows = Rows
    BY DEF Facts
  <1>6. BySession(l, Facts)
    BY <1>1, <1>3, <1>4, <1>5 DEF BySession
  <1>7. Holds(l, Facts)
    BY <1>4, <1>6 DEF Holds, Callbacks, Exchanging
  <1>8. QED
    BY <1>2, <1>7, GoesOn

LEMMA AuthenticateSteps ==
  ASSUME IInv, NEW h \in Calls, Authenticate(h)
  PROVE  IInv'
  <1> DEFINE l == [at[h] EXCEPT !.pc = "served"]
  <1>1. at[h].pc = "auth_user" /\ Step(h, l) /\ UNCHANGED <<now, store, tables, given>>
    BY DEF Authenticate
  <1>2. at[h] \in Local /\ BySession(at[h], Facts)
    BY <1>1 DEF IInv, AtInv, Holds
  <1>3. l \in Local /\ l.pc = "served" /\ l.user = at[h].user /\ l.begun = at[h].begun
    BY <1>2 DEF Local, PCs
  <1> HIDE DEF l
  <1>4. BySession(l, Facts)
    BY <1>2, <1>3 DEF BySession
  <1>5. Holds(l, Facts)
    BY <1>3, <1>4 DEF Holds, Callbacks, Exchanging
  <1>6. QED
    BY <1>1, <1>5, GoesOn

-----------------------------------------------------------------------------
(* The invariant *)

LEMMA IInvInit == Init => IInv
  <1> SUFFICES ASSUME Init PROVE IInv
    OBVIOUS
  <1>1. /\ \A c \in Codes : codes[c] = NoCode
        /\ \A u \in Users : ~HasUser(u)
        /\ \A k \in Sessions : ~HasSession(k) /\ loggedOut[k] = Never
        /\ NoCode.status # "used"
    BY DEF Init, HasUser, HasSession, NoCode
  <1>2. StoreInv /\ CodesInv
    BY <1>1 DEF Init, StoreInv, CodesInv, Item
  <1>3. UsersInv
    BY <1>1 DEF Init, UsersInv
  <1>4. SessionsInv
    <2>1. Never \in 0..Never
      BY LoginBounds DEF Never
    <2>2. QED
      BY <1>1, <2>1 DEF Init, SessionsInv, Twins
  <1>5. LoginsInv /\ TokensInv
    BY DEF Init, LoginsInv, TokensInv
  <1>6. AtInv
    BY IdleHolds DEF Init, AtInv
  <1>7. TimeInv
    BY LoginBounds DEF Init, TimeInv
  <1>8. QED
    BY <1>2, <1>3, <1>4, <1>5, <1>6, <1>7 DEF IInv

LEMMA IInvStep == IInv /\ [Next]_vars => IInv'
  <1> SUFFICES ASSUME IInv, [Next]_vars PROVE IInv'
    OBVIOUS
  <1>1. CASE UNCHANGED vars
    BY <1>1, Reads DEF vars, tables, given, SomeCall
  <1>2. ASSUME NEW s \in States, GoogleLogin(s) \/ \E a \in Accounts : Consent(a, s) PROVE IInv'
    BY <1>2, StoreSteps, ConsentSteps
  <1>3. ASSUME NEW h \in Calls, Callback(h) PROVE IInv'
    BY <1>3, GetStateSteps, DeleteStateSteps, ExchangeCodeSteps, FindByOAuthSteps,
       FindByEmailSteps, UserSteps, CreateSessionSteps DEF Callback
  <1>4. ASSUME NEW h \in Calls, Request(h) PROVE IInv'
    <2>1. CASE \E c \in Codes : GoogleCallback(h, c)
      BY <2>1, GoogleCallbackSteps
    <2>2. CASE Refresh(h)
      BY <2>2, RefreshAccessTokenSteps, UpdateLastUsedSteps, IssueAccessTokenSteps DEF Refresh
    <2>3. CASE EchoAuth(h)
      BY <2>3, BearerRequestSteps, SessionRequestSteps, AuthenticateSteps DEF EchoAuth
    <2>4. CASE RevokeFound(h) \/ \E k \in Sessions : LogoutByToken(h, k)
      BY <2>4, LogoutByTokenSteps, RevokeFoundSteps
    <2>5. CASE Respond(h)
      BY <2>5, GivesUp DEF Respond
    <2>6. QED
      BY <1>4, <2>1, <2>2, <2>3, <2>4, <2>5 DEF Request
  <1>5. ASSUME NEW h \in Calls, Fail(h) PROVE IInv'
    BY <1>5, GivesUp DEF Fail
  <1>6. ASSUME NEW k \in Sessions, Logout(k) PROVE IInv'
    BY <1>6, LogoutSteps
  <1>7. CASE CleanupExpired \/ Restart \/ Tick
    BY <1>7, StoreSteps, TickSteps
  <1>8. QED
    BY <1>1, <1>2, <1>3, <1>4, <1>5, <1>6, <1>7 DEF Next

LEMMA Invariance == Spec => []IInv
  BY IInvInit, IInvStep, PTL DEF Spec

-----------------------------------------------------------------------------
(* Theorems *)

\* Every variable keeps its type, the rows and the locals of every call too.
THEOREM TypeCorrect == Spec => []TypeOK
  <1>1. IInv => TypeOK
    <2> SUFFICES ASSUME IInv PROVE TypeOK
      OBVIOUS
    <2>1. now \in Nat /\ started \in Nat /\ loggedOut \in [Sessions -> Nat]
      <3>1. 0..MaxTime \subseteq Nat /\ 0..Never \subseteq Nat
        BY LoginBounds DEF Never
      <3>2. QED
        BY <3>1 DEF IInv, TimeInv, SessionsInv
    <2>2. QED
      BY <2>1 DEF IInv, StoreInv, CodesInv, UsersInv, SessionsInv, LoginsInv, TokensInv,
                  AtInv, TypeOK
  <1>2. QED
    BY <1>1, Invariance, PTL

\* The row of an address is found or made once, whichever logins run at once.
THEOREM SameUser == Spec => []SameUserAtEveryLogin
  <1>1. ASSUME IInv, NEW l \in logins
        PROVE  \E u \in Users : /\ HasUser(u) /\ users[u].email = Address[l.account]
                                /\ HasSession(l.key) /\ sessions[l.key].user = u
    <2>1. PICK u \in Users, i \in Nat :
            <<l.key, u, i>> \in Rows /\ <<u, Address[l.account]>> \in Owners
      BY <1>1 DEF IInv, LoginsInv
    <2>2. QED
      BY <1>1, <2>1, RowIs, OwnerIs
  <1>2. IInv => SameUserAtEveryLogin
    BY <1>1 DEF SameUserAtEveryLogin, IInv, UsersInv
  <1>3. QED
    BY <1>2, Invariance, PTL

\* The session that a login is answered with is one of the user with the caller's address.
THEOREM OwnersSession == Spec => []SessionOfOwner
  <1>1. ASSUME IInv, NEW l \in logins
        PROVE  /\ HasUser(sessions[l.key].user)
               /\ users[sessions[l.key].user].email = Address[l.account]
    <2>1. PICK u \in Users, i \in Nat :
            <<l.key, u, i>> \in Rows /\ <<u, Address[l.account]>> \in Owners
      BY <1>1 DEF IInv, LoginsInv
    <2>2. QED
      BY <1>1, <2>1, RowIs, OwnerIs
  <1>2. IInv => SessionOfOwner
    BY <1>1 DEF SessionOfOwner
  <1>3. QED
    BY <1>2, Invariance, PTL

\* A session whose holder was told that it is logged out is never good again.
THEOREM LogoutFinal == Spec => []LogoutIsFinal
  <1>1. IInv => LogoutIsFinal
    BY DEF IInv, SessionsInv, LogoutIsFinal
  <1>2. QED
    BY <1>1, Invariance, PTL

\* Access ends AccessTTL after the last refresh that began while the session was good.
THEOREM AccessEndsInTime == Spec => []AccessEnds
  <1>1. ASSUME IInv, NEW b, NEW k, <<b, k>> \in Moments
        PROVE  k \in Sessions /\ HasSession(k) /\ b <= End(k)
    BY <1>1 DEF Moments, Good, End
  <1>2. ASSUME IInv, NEW h \in Calls, at[h].pc = "served"
        PROVE  \E k \in Sessions :
                 /\ HasSession(k) /\ sessions[k].user = at[h].user
                 /\ \/ at[h].begun <= End(k)
                    \/ \E t \in tokens : /\ t.key = k /\ t.begun <= End(k)
                                         /\ at[h].begun < t.iat + AccessTTL
    <2>1. BySession(at[h], Facts) \/ ByToken(at[h], Facts)
      BY <1>2 DEF IInv, AtInv, Holds
    <2>2. Facts.good = Moments /\ Facts.rows = Rows /\ Facts.tokens = tokens
      BY DEF Facts
    <2>3. CASE BySession(at[h], Facts)
      <3>1. PICK k \in Sessions, i \in Nat : <<at[h].begun, k>> \in Moments /\ <<k, at[h].user, i>> \in Rows
        BY <2>2, <2>3 DEF BySession
      <3>2. QED
        BY <1>1, <1>2, <3>1, RowIs
    <2>4. CASE ByToken(at[h], Facts)
      <3>1. PICK t \in tokens : t.user = at[h].user /\ at[h].begun < t.iat + AccessTTL
        BY <2>2, <2>4 DEF ByToken
      <3>2. PICK i \in Nat : <<t.begun, t.key>> \in Moments /\ <<t.key, t.user, i>> \in Rows
        BY <1>2 DEF IInv, TokensInv
      <3>3. /\ t.key \in Sessions /\ HasSession(t.key) /\ sessions[t.key].user = at[h].user
            /\ t.begun <= End(t.key)
        BY <1>1, <1>2, <3>1, <3>2, RowIs
      <3>4. QED
        BY <3>1, <3>3
    <2>5. QED
      BY <2>1, <2>3, <2>4
  <1>3. IInv => AccessEnds
    BY <1>2 DEF AccessEnds
  <1>4. QED
    BY <1>3, Invariance, PTL

\* A state lets nobody in who arrives after a callback with it has exchanged its code.
THEOREM LateCallback == Spec => []LateCallbackRefused
  <1>1. IInv => LateCallbackRefused
    BY Caller DEF LateCallbackRefused, Callbacks, Exchanging, CallbackHolds
  <1>2. QED
    BY <1>1, Invariance, PTL

=============================================================================
