----------------------------- MODULE RoomAccess -----------------------------
(***************************************************************************)
(* What the rooms promise about who gets into them, with no participants   *)
(* table, overlapping request or stale copy in sight.  People are let in   *)
(* to a room once and for all, whichever room's host lets them in; they    *)
(* come and go, get tokens and become its host only after that.  A room    *)
(* that is not public lets in only those it expects.  Every step is about  *)
(* one person and one room.                                                *)
(***************************************************************************)
CONSTANTS Rooms, Users, Types

VARIABLES
  type,      \* type of each room
  host,      \* its host
  expected,  \* who made a room or was invited to it
  letIn,     \* who made it, was admitted, by whichever room's host, or accepted an invitation
  inside,    \* who is in which room
  tokens     \* who has been given a token for which room

vars == <<type, host, expected, letIn, inside, tokens>>

Init ==
  /\ type \in [Rooms -> Types] /\ host \in [Rooms -> Users]
  /\ expected = {<<r, host[r]>> : r \in Rooms}
  /\ letIn = expected /\ tokens = expected
  /\ inside = {}

MayBeLetIn(x) == type[x[1]] = "public" \/ x \in expected

MayGetToken(x) == tokens' \in {tokens, tokens \union {x}}

Invite(x) ==
  /\ expected' = expected \union {x}
  /\ UNCHANGED <<type, host, letIn, inside, tokens>>

\* A host admits somebody who waits, or somebody accepts an invitation: he is in.
LetIn(x) ==
  /\ MayBeLetIn(x)
  /\ letIn' = letIn \union {x}
  /\ inside' = inside \union {x}
  /\ MayGetToken(x)
  /\ UNCHANGED <<type, host, expected>>

\* He who has been let in comes back.
Enter(x) ==
  /\ x \in letIn
  /\ inside' = inside \union {x}
  /\ UNCHANGED <<type, host, expected, letIn, tokens>>

\* He leaves, is removed, or the room is ended.
Leave(x) ==
  /\ inside' = inside \ {x}
  /\ UNCHANGED <<type, host, expected, letIn, tokens>>

GiveToken(x) ==
  /\ x \in letIn
  /\ tokens' = tokens \union {x}
  /\ UNCHANGED <<type, host, expected, letIn, inside>>

MakeHost(r, u) ==
  /\ <<r, u>> \in letIn /\ MayBeLetIn(<<r, u>>)
  /\ host' = [host EXCEPT ![r] = u]
  /\ UNCHANGED <<type, expected, letIn, inside, tokens>>

Next ==
  \E r \in Rooms, u \in Users :
    \/ Invite(<<r, u>>) \/ LetIn(<<r, u>>) \/ Enter(<<r, u>>) \/ Leave(<<r, u>>)
    \/ GiveToken(<<r, u>>) \/ MakeHost(r, u)

Spec == Init /\ [][Next]_vars

=============================================================================
