---------------------------- MODULE LoginContract ----------------------------
(***************************************************************************)
(* What logging in promises, with no tables, pages, codes or clock in      *)
(* sight.  An address is registered once and for all, a session has one    *)
(* owner and is over for good, and nobody is served, or given an access    *)
(* token, but for a session that was not over when he asked for it.        *)
(***************************************************************************)
CONSTANTS Addresses, Users, Sessions, Calls, None

VARIABLES
  registered,  \* which user has which address
  owner,       \* the owner of each session
  held,        \* the sessions that were handed out, and to whose address
  over,        \* the sessions that were logged out or have expired
  asking,      \* the user on whose behalf a call has shown a session
  granted,     \* the users for whom there is an access token
  serving      \* the user on whose behalf a call is served

vars == <<registered, owner, held, over, asking, granted, serving>>

Init ==
  /\ registered = {} /\ held = {} /\ over = {} /\ granted = {}
  /\ owner = [k \in Sessions |-> None]
  /\ asking = [h \in Calls |-> None]
  /\ serving = [h \in Calls |-> None]

\* Neither a second user of an address nor a second address of a user.
Register(e, u) ==
  /\ \A x \in registered : x[1] # e /\ x[2] # u
  /\ registered' = registered \union {<<e, u>>}
  /\ UNCHANGED <<owner, held, over, asking, granted, serving>>

\* The owner of an address gets a session; he may never hear of it, and a slow login may
\* end with one that has expired.
LogIn(x, k) ==
  /\ owner[k] = None
  /\ owner' = [owner EXCEPT ![k] = x[2]]
  /\ held' \in {held, held \union {<<k, x[1]>>}}
  /\ over' \in {over, over \union {k}}
  /\ UNCHANGED <<registered, asking, granted, serving>>

\* Somebody logs out, or time passes.
End(S) ==
  /\ \A k \in S : owner[k] # None
  /\ over' = over \union S
  /\ UNCHANGED <<registered, owner, held, asking, granted, serving>>

Ask(h, k) ==
  /\ asking[h] = None /\ serving[h] = None
  /\ k \notin over
  /\ asking' = [asking EXCEPT ![h] = owner[k]]
  /\ UNCHANGED <<registered, owner, held, over, granted, serving>>

\* The session may be over by now.
Grant(h) ==
  /\ asking[h] # None
  /\ granted' = granted \union {asking[h]}
  /\ asking' = [asking EXCEPT ![h] = None]
  /\ UNCHANGED <<registered, owner, held, over, serving>>

Serve(h) ==
  /\ asking[h] # None
  /\ serving' = [serving EXCEPT ![h] = asking[h]]
  /\ asking' = [asking EXCEPT ![h] = None]
  /\ UNCHANGED <<registered, owner, held, over, granted>>

\* With an access token.
ServeBearer(h, u) ==
  /\ asking[h] = None /\ serving[h] = None /\ u \in granted
  /\ serving' = [serving EXCEPT ![h] = u]
  /\ UNCHANGED <<registered, owner, held, over, asking, granted>>

\* Calls end, with an answer, an error or the process.
Stop(H) ==
  /\ asking' = [h \in Calls |-> IF h \in H THEN None ELSE asking[h]]
  /\ serving' = [h \in Calls |-> IF h \in H THEN None ELSE serving[h]]
  /\ UNCHANGED <<registered, owner, held, over, granted>>

Next ==
  \/ \E S \in SUBSET Sessions : End(S)
  \/ \E h \in Calls :
       \/ Grant(h) \/ Serve(h) \/ Stop({h})
       \/ \E x \in held : Ask(h, x[1])
       \/ \E u \in granted : ServeBearer(h, u)
  \/ \E x \in registered, k \in Sessions : LogIn(x, k)
  \/ \E e \in Addresses, u \in Users : Register(e, u)
  \/ Stop(Calls)

Spec == Init /\ [][Next]_vars

=============================================================================
