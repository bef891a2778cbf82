------------------------- MODULE RoomRemovalsProofs -------------------------
(* A removal or a block that no running call can undo any more stands: for   *)
(* any number of rooms, users, records and calls.  A settled record stays so *)
(* whatever the call that goes on does; that the person it bans has no other *)
(* record in the room is the unique index on (room_id, user_id).             *)
EXTENDS RoomAccessProofs

OneRow ==
  \A i, k \in Ids :
    /\ Present(i) /\ Present(k)
    /\ part[i].room = part[k].room /\ part[i].user = part[k].user /\ part[i].user # NoUser
    => i = k

\* What a call with these locals can do to record i, whose user is u, undoes no removal.
Clean(l, i, u) ==
  /\ \A x \in Copies(l) : x.id = i /\ x.row # NoRow => x.row.removed /\ x.row.user = u
  /\ l.pc = "deny_delete" => l.id # i

Stands(i) == Present(i)' /\ part'[i].removed /\ part'[i].user = part[i].user

Spares(c, i) == /\ \E l : at' = [at EXCEPT ![c] = l] /\ Clean(l, i, part[i].user)
                /\ Stands(i)

LEMMA SettledMeans ==
  ASSUME NEW i
  PROVE  Settled(i) <=> /\ Present(i) /\ part[i].removed
                        /\ \A c \in Calls : Clean(at[c], i, part[i].user)
  BY DEF Settled, Clean

LEMMA StaysSettled ==
  ASSUME AInv, NEW i \in Ids, Settled(i), NEW c \in Calls, Spares(c, i)
  PROVE  Settled(i)'
  <1>1. PICK l : at' = [at EXCEPT ![c] = l] /\ Clean(l, i, part[i].user)
    BY DEF Spares
  <1>2. at \in [Calls -> Local]
    BY DEF AInv, IInv, CallsInv
  <1>3. ASSUME NEW b \in Calls PROVE Clean(at'[b], i, part[i].user)
    BY <1>1, <1>2, SettledMeans
  <1>4. Stands(i)
    BY DEF Spares
  <1>5. QED
    BY <1>3, <1>4 DEF Settled, Clean, Copies, Stands

\* A removed record does not wait and is not an invitation.
LEMMA SettledStatus ==
  ASSUME IInv, NEW i \in Ids, Settled(i)
  PROVE  part[i] \in Row /\ part[i].removed /\ part[i].status \notin {"invited", "waiting"}
  BY Facts DEF Settled, GoodRow

LEMMA Untouched == ASSUME NEW i, Settled(i), part'[i] = part[i] PROVE Stands(i)
  BY DEF Settled, Stands, Present

-----------------------------------------------------------------------------
(* Locals *)

LEMMA CleanBare ==
  ASSUME NEW l, l.row = NoRow, l.list = {}, l.pc # "deny_delete", NEW i, NEW u
  PROVE  Clean(l, i, u)
  BY DEF Clean, Copies

LEMMA CleanLess ==
  ASSUME NEW i, NEW u, NEW l, Clean(l, i, u), NEW m, m.id = l.id, m.row = l.row,
         m.list \subseteq l.list, m.pc # "deny_delete" \/ m.id # i
  PROVE  Clean(m, i, u)
  BY DEF Clean, Copies

\* A call that takes a copy of a row.
LEMMA CleanCopy ==
  ASSUME NEW i, NEW u, NEW l, Clean(l, i, u), NEW m, m.list \subseteq l.list,
         m.pc # "deny_delete", m.id = i => m.row.removed /\ m.row.user = u
  PROVE  Clean(m, i, u)
  BY DEF Clean, Copies

LEMMA CleanIdle == ASSUME NEW i, NEW u PROVE Clean(Idle, i, u)
  BY CleanBare DEF Idle

LEMMA SparesDone ==
  ASSUME NEW i, NEW c \in Calls, Done(c), Stands(i)
  PROVE  Spares(c, i)
  BY CleanIdle DEF Done, Step, Spares

LEMMA SparesGoto ==
  ASSUME AInv, NEW i \in Ids, Settled(i), NEW c \in Calls, NEW pc, Goto(c, pc),
         pc # "deny_delete" \/ at[c].id # i, Stands(i)
  PROVE  Spares(c, i)
  <1>1. CASE pc = "idle"
    BY <1>1, SparesDone DEF Goto, Done
  <1>2. CASE pc # "idle"
    <2> DEFINE m == [at[c] EXCEPT !.pc = pc]
    <2>1. at[c] \in Local /\ Clean(at[c], i, part[i].user)
      BY Facts, SettledMeans DEF AInv
    <2>2. m.pc = pc /\ m.id = at[c].id /\ m.row = at[c].row /\ m.list = at[c].list
      BY <2>1 DEF Local
    <2>3. at' = [at EXCEPT ![c] = m]
      BY <1>2 DEF Goto, Step
    <2> HIDE DEF m
    <2>4. Clean(m, i, part[i].user)
      BY <2>1, <2>2, CleanLess
    <2>5. QED
      BY <2>3, <2>4 DEF Spares
  <1>3. QED
    BY <1>1, <1>2

\* A call that goes on, its copies and its record as they were.
LEMMA SparesSame ==
  ASSUME AInv, NEW i \in Ids, Settled(i), NEW c \in Calls, NEW m, at' = [at EXCEPT ![c] = m],
         m.id = at[c].id, m.row = at[c].row, m.list \subseteq at[c].list, m.pc # "deny_delete",
         Stands(i)
  PROVE  Spares(c, i)
  BY SettledMeans, CleanLess DEF Spares

LEMMA SparesCopy ==
  ASSUME AInv, NEW i \in Ids, Settled(i), NEW c \in Calls, NEW m, at' = [at EXCEPT ![c] = m],
         m.list \subseteq at[c].list, m.pc # "deny_delete",
         m.id = i => m.row.removed /\ m.row.user = part[i].user, Stands(i)
  PROVE  Spares(c, i)
  BY SettledMeans, CleanCopy DEF Spares

-----------------------------------------------------------------------------
(* New calls *)

LEMMA FrameParts ==
  ASSUME NEW pc \in PCs, NEW r \in Rooms, NEW u \in Users
  PROVE  /\ Frame(pc, r, u) \in Local /\ Frame(pc, r, u).pc = pc
         /\ Frame(pc, r, u).row = NoRow /\ Frame(pc, r, u).list = {}
  BY FrameFields DEF Frame, Idle

LEMMA BareParts ==
  ASSUME NEW f \in Local, NEW s, NEW v, NEW k
  PROVE  /\ [f EXCEPT !.snap = s].pc = f.pc /\ [f EXCEPT !.snap = s].row = f.row
         /\ [f EXCEPT !.snap = s].list = f.list
         /\ [f EXCEPT !.other = v].pc = f.pc /\ [f EXCEPT !.other = v].row = f.row
         /\ [f EXCEPT !.other = v].list = f.list
         /\ [f EXCEPT !.id = k, !.snap = s].pc = f.pc /\ [f EXCEPT !.id = k, !.snap = s].row = f.row
         /\ [f EXCEPT !.id = k, !.snap = s].list = f.list
  BY DEF Local

LEMMA BeginsWithout ==
  ASSUME NEW i, Settled(i), NEW c \in Calls, NEW l, Begin(c, l), part' = part,
         l.row = NoRow, l.list = {}, l.pc # "deny_delete"
  PROVE  Spares(c, i)
  BY CleanBare, Untouched DEF Begin, Spares

LEMMA BareCallsSpare ==
  ASSUME NEW i, Settled(i), NEW c \in Calls, NEW u \in Users, NEW r \in Rooms,
         \/ StartRoom(c, u, r) \/ JoinRoom(c, u, r) \/ EndRoom(c, u, r) \/ RecordRequest(c, u, r)
         \/ HostRequest(c, u, r) \/ \E v \in Users : InviteUserByEmail(c, u, r, v)
  PROVE  Spares(c, i)
  <1> DEFINE Bare == {"save_room", "join_row", "join_auth", "end_list", "transfer_old",
                      "invite_check", "admit_row", "deny_row", "block_row", "remove_row"}
  <1>1. \A pc \in Bare : pc \in PCs /\ pc # "deny_delete"
    BY DEF PCs
  <1>2. PICK pc \in Bare :
           /\ \/ \E s : Begin(c, [Frame(pc, r, u) EXCEPT !.snap = s])
              \/ \E v : Begin(c, [Frame(pc, r, u) EXCEPT !.other = v])
              \/ \E k, s : Begin(c, [Frame(pc, r, u) EXCEPT !.id = k, !.snap = s])
           /\ part' = part
    <2>1. CASE StartRoom(c, u, r) \/ JoinRoom(c, u, r) \/ EndRoom(c, u, r)
      BY <2>1 DEF StartRoom, JoinRoom, EndRoom
    <2>2. CASE RecordRequest(c, u, r)
      BY <2>2, Zenon DEF RecordRequest, AdmitParticipant, DenyParticipant, BlockParticipant,
                         RemoveParticipant, HostCall
    <2>3. CASE HostRequest(c, u, r) \/ \E v \in Users : InviteUserByEmail(c, u, r, v)
      BY <2>3 DEF HostRequest, TransferHost, InviteUserByEmail
    <2>4. QED
      BY <2>1, <2>2, <2>3
  <1> HIDE DEF Bare
  <1> DEFINE f == Frame(pc, r, u)
  <1>3. f \in Local /\ f.pc = pc /\ f.row = NoRow /\ f.list = {} /\ pc # "deny_delete"
    BY <1>1, FrameParts
  <1>4. \/ \E s : Begin(c, [f EXCEPT !.snap = s])
        \/ \E v : Begin(c, [f EXCEPT !.other = v])
        \/ \E k, s : Begin(c, [f EXCEPT !.id = k, !.snap = s])
    BY <1>2
  <1> HIDE DEF f
  <1>5. ASSUME NEW s, Begin(c, [f EXCEPT !.snap = s]) PROVE Spares(c, i)
    <2> DEFINE l == [f EXCEPT !.snap = s]
    <2>1. l.row = NoRow /\ l.list = {} /\ l.pc # "deny_delete"
      BY <1>3, BareParts
    <2>2. QED
      BY <1>2, <1>5, <2>1, BeginsWithout
  <1>6. ASSUME NEW v, Begin(c, [f EXCEPT !.other = v]) PROVE Spares(c, i)
    <2> DEFINE l == [f EXCEPT !.other = v]
    <2>1. l.row = NoRow /\ l.list = {} /\ l.pc # "deny_delete"
      BY <1>3, BareParts
    <2>2. QED
      BY <1>2, <1>6, <2>1, BeginsWithout
  <1>7. ASSUME NEW k, NEW s, Begin(c, [f EXCEPT !.id = k, !.snap = s]) PROVE Spares(c, i)
    <2> DEFINE l == [f EXCEPT !.id = k, !.snap = s]
    <2>1. l.row = NoRow /\ l.list = {} /\ l.pc # "deny_delete"
      BY <1>3, BareParts
    <2>2. QED
      BY <1>2, <1>7, <2>1, BeginsWithout
  <1>8. QED
    BY <1>4, <1>5, <1>6, <1>7

LEMMA FrameList ==
  ASSUME NEW pc \in {"leave_save", "connect_save", "accept_room", "decline_save"},
         NEW r \in Rooms, NEW u \in Users, NEW k, NEW x, NEW w
  PROVE  /\ [Frame(pc, r, u) EXCEPT !.id = k, !.row = x].list = {}
         /\ [Frame(pc, r, u) EXCEPT !.id = k, !.row = x, !.was = w].list = {}
  <1> DEFINE f == Frame(pc, r, u)
  <1>1. f \in Local /\ f.list = {}
    BY FrameFields DEF PCs
  <1> HIDE DEF f
  <1>2. QED
    BY <1>1 DEF Local, f

LEMMA BeginsWith ==
  ASSUME NEW i, Settled(i), NEW c \in Calls, NEW l, Begin(c, l), part' = part,
         l.list = {}, l.pc # "deny_delete",
         l.id = i => l.row.removed /\ l.row.user = part[i].user
  PROVE  Spares(c, i)
  <1>1. Clean(Idle, i, part[i].user) /\ l.list \subseteq Idle.list
    BY CleanIdle DEF Idle
  <1>2. Clean(l, i, part[i].user)
    BY <1>1, CleanCopy
  <1>3. QED
    BY <1>2, Untouched DEF Begin, Spares

LEMMA LeaveRoomSpares ==
  ASSUME AInv, NEW i \in Ids, Settled(i), NEW c \in Calls, NEW u \in Users, NEW r \in Rooms,
         LeaveRoom(c, u, r)
  PROVE  Spares(c, i)
  <1>1. PICK k \in RowsOf(r, u) :
           Begin(c, [Frame("leave_save", r, u) EXCEPT
                       !.id = k, !.row = LeftRow(part[k]), !.was = part[k].status = "joined"])
    BY DEF LeaveRoom
  <1>2. PICK w \in BOOLEAN : w <=> part[k].status = "joined"
    OBVIOUS
  <1> DEFINE x == LeftRow(part[k])
             l == [Frame("leave_save", r, u) EXCEPT !.id = k, !.row = x, !.was = w]
  <1>3. Begin(c, l) /\ part' = part
    BY <1>1, <1>2 DEF LeaveRoom
  <1>4. k = i => x.removed /\ x.user = part[i].user
    BY SettledStatus DEF AInv, LeftRow, Row
  <1> HIDE DEF x
  <1>5. l.pc = "leave_save" /\ l.id = k /\ l.row = x /\ l.list = {}
    BY CopyFields, FrameList
  <1> HIDE DEF l
  <1>6. QED
    BY <1>3, <1>4, <1>5, BeginsWith

LEMMA ParticipantJoinedSpares ==
  ASSUME AInv, NEW i \in Ids, Settled(i), NEW c \in Calls, NEW u \in Users, NEW r \in Rooms,
         ParticipantJoined(c, u, r)
  PROVE  Spares(c, i)
  <1>1. PICK k \in RowsOf(r, u) :
           Begin(c, [Frame("connect_save", r, u) EXCEPT
                       !.id = k, !.row = [part[k] EXCEPT !.status = "joined"]])
    BY DEF ParticipantJoined
  <1> DEFINE x == [part[k] EXCEPT !.status = "joined"]
             l == [Frame("connect_save", r, u) EXCEPT !.id = k, !.row = x]
  <1>2. Begin(c, l) /\ part' = part
    BY <1>1 DEF ParticipantJoined
  <1>3. k = i => x.removed /\ x.user = part[i].user
    BY SettledStatus DEF AInv, Row
  <1> HIDE DEF x
  <1>4. l.pc = "connect_save" /\ l.id = k /\ l.row = x /\ l.list = {}
    BY CopyFields, FrameList
  <1> HIDE DEF l
  <1>5. QED
    BY <1>2, <1>3, <1>4, BeginsWith

\* An invitation that is answered is no removed record.
LEMMA AnswerSpares ==
  ASSUME AInv, NEW i \in Ids, Settled(i), NEW c \in Calls, NEW u \in Users, NEW r \in Rooms,
         AcceptInvitation(c, u, r) \/ DeclineInvitation(c, u, r)
  PROVE  Spares(c, i)
  <1>1. PICK pc \in {"accept_room", "decline_save"}, k \in Invitations(r, u) :
           /\ \E x : Begin(c, [Frame(pc, r, u) EXCEPT !.id = k, !.row = x])
           /\ part' = part
    BY DEF AcceptInvitation, DeclineInvitation
  <1>2. PICK x : Begin(c, [Frame(pc, r, u) EXCEPT !.id = k, !.row = x])
    BY <1>1
  <1> DEFINE l == [Frame(pc, r, u) EXCEPT !.id = k, !.row = x]
  <1>3. k # i
    BY SettledStatus DEF AInv, Invitations
  <1>4. l.pc = pc /\ l.id = k /\ l.list = {}
    BY CopyFields, FrameList
  <1>5. Begin(c, l) /\ part' = part
    BY <1>1, <1>2
  <1> HIDE DEF l
  <1>6. QED
    BY <1>3, <1>4, <1>5, BeginsWith

LEMMA NewCallSpares ==
  ASSUME AInv, NEW i \in Ids, Settled(i), NEW c \in Calls, NewCall(c)
  PROVE  Spares(c, i)
  <1>1. PICK u \in Users, r \in Rooms : NewCall(c)!(u, r)
    BY DEF NewCall
  <1>2. CASE \/ StartRoom(c, u, r) \/ JoinRoom(c, u, r) \/ EndRoom(c, u, r)
             \/ RecordRequest(c, u, r) \/ HostRequest(c, u, r)
             \/ \E v \in Users : InviteUserByEmail(c, u, r, v)
    BY <1>2, BareCallsSpare
  <1>3. CASE \/ LeaveRoom(c, u, r) \/ ParticipantJoined(c, u, r)
             \/ AcceptInvitation(c, u, r) \/ DeclineInvitation(c, u, r)
    BY <1>3, LeaveRoomSpares, ParticipantJoinedSpares, AnswerSpares
  <1>4. QED
    BY <1>1, <1>2, <1>3, Zenon DEF LiveKitEvent, MemberRequest, InvitationRequest


-----------------------------------------------------------------------------
(* Statements that write no row *)

LEMMA QuietSpares ==
  ASSUME AInv, NEW i \in Ids, Settled(i), NEW c \in Calls,
         \/ SaveRoom(c) \/ LeaveCount(c) \/ CountActive(c) \/ AutoEnd(c) \/ SaveEnded(c)
         \/ CountAdmitted(c) \/ CountRemoved(c) \/ UpdateHostID(c) \/ CheckEmail(c)
         \/ CheckInvited(c) \/ Return(c)
  PROVE  Spares(c, i)
  <1>1. part' = part
    BY DEF SaveRoom, LeaveCount, CountActive, AutoEnd, SaveEnded, CountAdmitted, CountRemoved,
           UpdateHostID, CheckEmail, CheckInvited, Return
  <1>2. Stands(i)
    BY <1>1, Untouched
  <1>3. CASE Done(c)
    BY <1>2, <1>3, SparesDone
  <1>4. CASE \E pc \in {"leave_check", "leave_end", "promote_row", "idle", "invite_create",
                        "join_row", "end_rows"} : Goto(c, pc)
    BY <1>2, <1>4, SparesGoto
  <1>5. QED
    BY <1>3, <1>4 DEF SaveRoom, LeaveCount, CountActive, AutoEnd, SaveEnded, CountAdmitted,
                      CountRemoved, UpdateHostID, CheckEmail, CheckInvited, Return

LEMMA SnapParts ==
  ASSUME NEW l \in Local, NEW pc, NEW s
  PROVE  LET m == [l EXCEPT !.pc = pc, !.snap = s] IN
         m.pc = pc /\ m.id = l.id /\ m.row = l.row /\ m.list = l.list
  BY DEF Local

\* A call that has read the room goes on with its copies.
LEMMA SnapSpares ==
  ASSUME AInv, NEW i \in Ids, Settled(i), NEW c \in Calls, NEW pc, pc # "deny_delete", NEW s,
         Step(c, [at[c] EXCEPT !.pc = pc, !.snap = s]), Stands(i)
  PROVE  Spares(c, i)
  <1> DEFINE m == [at[c] EXCEPT !.pc = pc, !.snap = s]
  <1>1. at[c] \in Local
    BY Facts DEF AInv
  <1>2. m.pc = pc /\ m.id = at[c].id /\ m.row = at[c].row /\ m.list = at[c].list
    BY <1>1, SnapParts
  <1>3. at' = [at EXCEPT ![c] = m]
    BY DEF Step
  <1> HIDE DEF m
  <1>4. QED
    BY <1>2, <1>3, SparesSame

LEMMA RoomReadSpares ==
  ASSUME AInv, NEW i \in Ids, Settled(i), NEW c \in Calls,
         CountHost(c) \/ PromoteInRoom(c) \/ FindRoom(c)
  PROVE  Spares(c, i)
  <1>1. at[c] \in Local
    BY Facts DEF AInv
  <1>2. Stands(i)
    BY Untouched DEF CountHost, PromoteInRoom, FindRoom
  <1>3. CASE CountHost(c)
    <2>1. Done(c) \/ Step(c, [at[c] EXCEPT !.pc = "save_room", !.snap.status = "active"])
      BY <1>3 DEF CountHost
    <2>2. CASE Step(c, [at[c] EXCEPT !.pc = "save_room", !.snap.status = "active"])
      <3>1. Step(c, [at[c] EXCEPT !.pc = "save_room",
                                  !.snap = [at[c].snap EXCEPT !.status = "active"]])
        BY <1>1, <2>2 DEF Local
      <3>2. QED
        BY <1>2, <3>1, SnapSpares
    <2>3. QED
      BY <1>2, <2>1, <2>2, SparesDone
  <1>4. CASE PromoteInRoom(c)
    BY <1>2, <1>4, SnapSpares DEF PromoteInRoom
  <1>5. CASE FindRoom(c)
    BY <1>2, <1>5, SnapSpares DEF FindRoom
  <1>6. QED
    BY <1>3, <1>4, <1>5

\* DenyParticipant deletes records that wait, and removed ones do not.
LEMMA FindWaitingSpares ==
  ASSUME AInv, NEW i \in Ids, Settled(i), NEW c \in Calls, FindWaiting(c)
  PROVE  Spares(c, i)
  <1>1. PICK pc \in {"admit_mark", "deny_delete"} : Goto(c, pc)
    BY DEF FindWaiting
  <1>2. at[c].id # i
    BY SettledStatus DEF AInv, FindWaiting
  <1>3. Stands(i)
    BY Untouched DEF FindWaiting
  <1>4. QED
    BY <1>1, <1>2, <1>3, SparesGoto

\* A copy that a statement makes of record k.
LEMMA ReadSpares ==
  ASSUME AInv, NEW i \in Ids, Settled(i), NEW c \in Calls, NEW pc, pc # "deny_delete",
         NEW k, NEW x, Step(c, [at[c] EXCEPT !.pc = pc, !.id = k, !.row = x]), part' = part,
         k = i => x.removed /\ x.user = part[i].user
  PROVE  Spares(c, i)
  <1> DEFINE m == [at[c] EXCEPT !.pc = pc, !.id = k, !.row = x]
  <1>1. at[c] \in Local /\ Stands(i)
    BY Facts, Untouched DEF AInv
  <1>2. m.pc = pc /\ m.id = k /\ m.row = x /\ m.list = at[c].list
    BY <1>1 DEF Local
  <1>3. at' = [at EXCEPT ![c] = m]
    BY DEF Step
  <1> HIDE DEF m
  <1>4. QED
    BY <1>1, <1>2, <1>3, SparesCopy

LEMMA FindSpares ==
  ASSUME AInv, NEW i \in Ids, Settled(i), NEW c \in Calls,
         FindParticipant(c) \/ FindNewHost(c) \/ FindOldHost(c)
  PROVE  Spares(c, i)
  <1>1. part' = part
    BY DEF FindParticipant, FindNewHost, FindOldHost
  <1>2. CASE FindParticipant(c)
    <2>1. CASE Goto(c, "join_create")
      BY <1>1, <2>1, SparesGoto, Untouched
    <2>2. CASE \E k \in RowsOf(at[c].room, at[c].user) : MayRejoin(part[k])
                 /\ Step(c, [at[c] EXCEPT !.pc = "join_save", !.id = k,
                        !.row = [part[k] EXCEPT !.status = JoinStatus(at[c].snap, at[c].user)]])
      <3>1. PICK k, x :
               /\ Step(c, [at[c] EXCEPT !.pc = "join_save", !.id = k, !.row = x])
               /\ ~part[k].removed
        BY <2>2 DEF MayRejoin
      <3>2. k # i
        BY <3>1 DEF Settled
      <3>3. QED
        BY <1>1, <3>1, <3>2, ReadSpares
    <2>3. QED
      BY <1>2, <2>1, <2>2, Zenon DEF FindParticipant
  <1>3. CASE FindNewHost(c) \/ FindOldHost(c)
    <2>1. PICK pc, s, k :
             /\ pc \in {"promote_save", "transfer_new"} /\ s \in {"host", "participant"}
             /\ Step(c, [at[c] EXCEPT !.pc = pc, !.id = k, !.row = [part[k] EXCEPT !.role = s]])
      BY <1>3 DEF FindNewHost, FindOldHost
    <2> DEFINE x == [part[k] EXCEPT !.role = s]
    <2>2. k = i => x.removed /\ x.user = part[i].user
      BY SettledStatus DEF AInv, Row
    <2>3. Step(c, [at[c] EXCEPT !.pc = pc, !.id = k, !.row = x])
      BY <2>1
    <2>4. pc # "deny_delete"
      BY <2>1
    <2> HIDE DEF x
    <2>5. QED
      BY <1>1, <2>2, <2>3, <2>4, ReadSpares
  <1>4. QED
    BY <1>2, <1>3

LEMMA FindBlockedSpares ==
  ASSUME AInv, NEW i \in Ids, Settled(i), NEW c \in Calls, FindBlocked(c)
  PROVE  Spares(c, i)
  <1> DEFINE k == at[c].id
             x == [part[k] EXCEPT !.status = "denied", !.removed = TRUE]
             m == [at[c] EXCEPT !.pc = "block_save", !.row = x]
  <1>1. at[c] \in Local /\ Stands(i)
    BY Facts, Untouched DEF AInv, FindBlocked
  <1>2. k = i => x.removed /\ x.user = part[i].user
    BY SettledStatus DEF AInv, Row
  <1>3. at' = [at EXCEPT ![c] = m]
    BY DEF FindBlocked, Step
  <1> HIDE DEF x
  <1>4. m.pc = "block_save" /\ m.id = k /\ m.row = x /\ m.list = at[c].list
    BY <1>1 DEF Local
  <1> HIDE DEF m
  <1>5. QED
    BY <1>1, <1>2, <1>3, <1>4, SparesCopy

\* A call that takes copies into its list, besides the one it has.
LEMMA ListSpares ==
  ASSUME AInv, NEW i \in Ids, Settled(i), NEW c \in Calls, NEW pc, pc # "deny_delete", NEW s,
         Step(c, [at[c] EXCEPT !.pc = pc, !.list = s]), part' = part,
         \A x \in s : x.id = i => x.row.removed /\ x.row.user = part[i].user
  PROVE  Spares(c, i)
  <1> DEFINE m == [at[c] EXCEPT !.pc = pc, !.list = s]
  <1>1. at[c] \in Local /\ Stands(i) /\ Clean(at[c], i, part[i].user)
    BY Facts, Untouched, SettledMeans DEF AInv
  <1>2. m.pc = pc /\ m.id = at[c].id /\ m.row = at[c].row /\ m.list = s
    BY <1>1 DEF Local
  <1>3. at' = [at EXCEPT ![c] = m]
    BY DEF Step
  <1> HIDE DEF m
  <1>4. Clean(m, i, part[i].user)
    BY <1>1, <1>2 DEF Clean, Copies
  <1>5. QED
    BY <1>1, <1>3, <1>4 DEF Spares

LEMMA ListingSpares ==
  ASSUME AInv, NEW i \in Ids, Settled(i), NEW c \in Calls, ListActive(c) \/ FindNextHost(c)
  PROVE  Spares(c, i)
  <1>1. part' = part /\ part[i] \in Row /\ part[i].removed
    BY SettledStatus DEF AInv, ListActive, FindNextHost
  <1>2. CASE ListActive(c)
    <2> DEFINE s == {[id |-> k, row |-> LeftRow(part[k])] : k \in Active(at[c].room)}
    <2>1. ASSUME NEW x \in s, x.id = i PROVE x.row.removed /\ x.row.user = part[i].user
      <3>1. PICK k \in Active(at[c].room) : x = [id |-> k, row |-> LeftRow(part[k])]
        BY <2>1
      <3>2. x.row = LeftRow(part[i])
        BY <2>1, <3>1
      <3>3. QED
        BY <1>1, <3>2 DEF LeftRow, Row
    <2>2. Step(c, [at[c] EXCEPT !.pc = "end_room", !.list = s])
      BY <1>2 DEF ListActive
    <2> HIDE DEF s
    <2>3. QED
      BY <1>1, <2>1, <2>2, ListSpares
  <1>3. CASE FindNextHost(c)
    <2>1. PICK k : Step(c, [at[c] EXCEPT !.pc = "transfer_demote",
                              !.list = {[id |-> k, row |-> [part[k] EXCEPT !.role = "host"]]}])
      BY <1>3 DEF FindNextHost
    <2> DEFINE s == {[id |-> k, row |-> [part[k] EXCEPT !.role = "host"]]}
    <2>2. \A x \in s : x.id = i => x.row.removed /\ x.row.user = part[i].user
      BY <1>1 DEF Row
    <2>3. Step(c, [at[c] EXCEPT !.pc = "transfer_demote", !.list = s])
      BY <2>1
    <2> HIDE DEF s
    <2>4. QED
      BY <1>1, <2>2, <2>3, ListSpares
  <1>4. QED
    BY <1>2, <1>3


-----------------------------------------------------------------------------
(* Statements that write rows *)

\* A copy saved over a removed record is removed too.
LEMMA SaveStands ==
  ASSUME AInv, NEW i \in Ids, Settled(i), NEW c \in Calls, NEW y \in Holds(at[c]),
         Save(y.id, y.row)
  PROVE  Stands(i)
  <1>1. Real(y.row) /\ y.id \in Ids
    BY DEF AInv, OwnersInv, OwnedBy
  <1>2. part \in [Ids -> Row \union {NoRow, Gone}] /\ part' = [part EXCEPT ![y.id] = y.row]
    BY DEF AInv, IInv, PartInv, Save
  <1>3. CASE y.id # i
    BY <1>2, <1>3, Untouched
  <1>4. CASE y.id = i
    <2>1. y.row # NoRow
      BY <1>1 DEF Real, NoRow
    <2>2. y \in Copies(at[c])
      BY DEF Holds, Copies
    <2>3. y.row.removed /\ y.row.user = part[i].user
      BY <1>4, <2>1, <2>2 DEF Settled
    <2>4. part'[i] = y.row
      BY <1>2, <1>4
    <2>5. QED
      BY <1>1, <2>3, <2>4 DEF Stands, Present, Real
  <1>5. QED
    BY <1>3, <1>4

\* The copy that a call has under its id.
LEMMA SaveRowStands ==
  ASSUME AInv, NEW i \in Ids, Settled(i), NEW c \in Calls,
         at[c].pc \in WithRow \union WithClaim, Save(at[c].id, at[c].row)
  PROVE  Stands(i)
  <1>1. PICK y \in Holds(at[c]) : y.id = at[c].id /\ y.row = at[c].row
    BY HeldRowIn
  <1>2. QED
    BY <1>1, SaveStands

LEMMA SaveParticipantSpares ==
  ASSUME AInv, NEW i \in Ids, Settled(i), NEW c \in Calls, SaveParticipant(c)
  PROVE  Spares(c, i)
  <1>1. at[c].pc \in WithRow /\ Save(at[c].id, at[c].row) /\ Goto(c, AfterSave(at[c]))
    BY DEF SaveParticipant, WithRow
  <1>2. AfterSave(at[c]) # "deny_delete"
    BY DEF SaveParticipant, AfterSave, AfterJoin
  <1>3. QED
    BY <1>1, <1>2, SaveRowStands, SparesGoto

LEMMA AcceptSpares ==
  ASSUME AInv, NEW i \in Ids, Settled(i), NEW c \in Calls, Accept(c)
  PROVE  Spares(c, i)
  <1>1. at[c] \in Local /\ at[c].pc \in WithClaim /\ Save(at[c].id, at[c].row)
    BY Facts DEF AInv, Accept, WithClaim
  <1>2. Stands(i)
    BY <1>1, SaveRowStands
  <1>3. Done(c) \/ Step(c, [at[c] EXCEPT !.pc = "save_room", !.snap.count = @ + 1])
    BY DEF Accept
  <1>4. CASE Step(c, [at[c] EXCEPT !.pc = "save_room", !.snap.count = @ + 1])
    <2>1. Step(c, [at[c] EXCEPT !.pc = "save_room",
                                !.snap = [at[c].snap EXCEPT !.count = @ + 1]])
      BY <1>1, <1>4 DEF Local
    <2>2. QED
      BY <1>2, <2>1, SnapSpares
  <1>5. QED
    BY <1>2, <1>3, <1>4, SparesDone

LEMMA PromoteSpares ==
  ASSUME AInv, NEW i \in Ids, Settled(i), NEW c \in Calls, Promote(c)
  PROVE  Spares(c, i)
  <1>1. at[c].pc = "transfer_promote" /\ Goto(c, "transfer_host")
    BY DEF Promote
  <1>2. PICK y \in at[c].list : Save(y.id, y.row)
    BY DEF Promote
  <1>3. y \in Holds(at[c])
    BY <1>1, <1>2 DEF Holds, WithList
  <1>4. QED
    BY <1>1, <1>2, <1>3, SaveStands, SparesGoto

LEMMA MarkLeftSpares ==
  ASSUME AInv, NEW i \in Ids, Settled(i), NEW c \in Calls, MarkLeft(c)
  PROVE  Spares(c, i)
  <1>1. at[c] \in Local /\ at[c].pc = "end_rows"
    BY Facts DEF AInv, MarkLeft
  <1>2. PICK x \in at[c].list :
           Save(x.id, x.row) /\ (Done(c) \/ Step(c, [at[c] EXCEPT !.list = @ \ {x}]))
    BY DEF MarkLeft
  <1>3. x \in Holds(at[c])
    BY <1>1, <1>2 DEF Holds, WithList
  <1>4. Stands(i)
    BY <1>2, <1>3, SaveStands
  <1>5. CASE Done(c)
    BY <1>4, <1>5, SparesDone
  <1>6. CASE Step(c, [at[c] EXCEPT !.list = @ \ {x}])
    <2> DEFINE m == [at[c] EXCEPT !.list = @ \ {x}]
    <2>1. /\ m.pc = "end_rows" /\ m.id = at[c].id /\ m.row = at[c].row
          /\ m.list \subseteq at[c].list
      BY <1>1 DEF Local
    <2>2. at' = [at EXCEPT ![c] = m]
      BY <1>6 DEF Step
    <2> HIDE DEF m
    <2>3. QED
      BY <1>4, <2>1, <2>2, SparesSame
  <1>7. QED
    BY <1>2, <1>5, <1>6

\* AdmitParticipant leaves is_removed alone, RemoveParticipant sets it, and the record that
\* DenyParticipant deletes is another.
LEMMA RowOfIdSpares ==
  ASSUME AInv, NEW i \in Ids, Settled(i), NEW c \in Calls,
         MarkAsJoined(c) \/ RemoveRow(c) \/ DeleteRow(c)
  PROVE  Spares(c, i)
  <1> DEFINE k == at[c].id
  <1>1. part[i] \in Row /\ part[i].removed /\ k \in Ids
    BY SettledStatus, Facts DEF AInv, MarkAsJoined, RemoveRow, DeleteRow, Call, WithId
  <1>2. part \in [Ids -> Row \union {NoRow, Gone}]
    BY DEF AInv, IInv, PartInv
  <1>3. Stands(i)
    <2>1. CASE k # i
      <3>1. part'[i] = part[i]
        BY <1>2, <2>1 DEF MarkAsJoined, RemoveRow, DeleteRow
      <3>2. QED
        BY <3>1, Untouched
    <2>2. CASE k = i
      <3>1. Present(k) /\ ~DeleteRow(c)
        BY <2>2, SettledMeans DEF Clean, DeleteRow
      <3>2. CASE MarkAsJoined(c)
        <4>1. part'[i] = [part[i] EXCEPT !.status = "joined"]
          BY <1>1, <1>2, <2>2, <3>1, <3>2 DEF MarkAsJoined
        <4>2. QED
          BY <1>1, <4>1 DEF Stands, Present, Row
      <3>3. CASE RemoveRow(c)
        <4>1. part'[i] = [LeftRow(part[i]) EXCEPT !.status = "removed", !.removed = TRUE]
          BY <1>1, <1>2, <2>2, <3>1, <3>3 DEF RemoveRow
        <4>2. QED
          BY <1>1, <4>1 DEF Stands, Present, Row, LeftRow
      <3>4. QED
        BY <3>1, <3>2, <3>3
    <2>3. QED
      BY <2>1, <2>2
  <1>4. CASE DeleteRow(c)
    BY <1>3, <1>4, SparesDone DEF DeleteRow
  <1>5. CASE \E pc \in {"admit_count", "remove_count"} : Goto(c, pc)
    BY <1>3, <1>5, SparesGoto
  <1>6. QED
    BY <1>4, <1>5 DEF MarkAsJoined, RemoveRow

LEMMA CreateSpares ==
  ASSUME AInv, NEW i \in Ids, Settled(i), NEW c \in Calls,
         CreateParticipant(c) \/ CreateInvitation(c)
  PROVE  Spares(c, i)
  <1>1. PICK row : Insert(row)
    BY DEF CreateParticipant, CreateInvitation
  <1>2. PICK k \in Ids : part[k].status = "none" /\ part' = [part EXCEPT ![k] = row]
    BY <1>1 DEF Insert, Save
  <1>3. k # i /\ part \in [Ids -> Row \union {NoRow, Gone}]
    BY <1>2 DEF Settled, Present, AInv, IInv, PartInv
  <1>4. part'[i] = part[i]
    BY <1>2, <1>3
  <1>5. Stands(i)
    BY <1>4, Untouched
  <1>6. Done(c) \/ \E pc \in {"join_count", "idle"} : Goto(c, pc)
    BY DEF CreateParticipant, CreateInvitation, AfterJoin
  <1>7. QED
    BY <1>5, <1>6, SparesDone, SparesGoto

LEMMA StatementSpares ==
  ASSUME AInv, NEW i \in Ids, Settled(i), NEW c \in Calls, Statement(c)
  PROVE  Spares(c, i)
  BY QuietSpares, RoomReadSpares, FindWaitingSpares, FindSpares, FindBlockedSpares,
     ListingSpares, SaveParticipantSpares, AcceptSpares, PromoteSpares, MarkLeftSpares,
     RowOfIdSpares, CreateSpares
     DEF Statement

-----------------------------------------------------------------------------
(* One record of a person in a room *)

\* What a statement writes into the table leaves the index intact.
Unique(c) ==
  \/ part' = part
  \/ \E k \in Ids : \E row : Save(k, row)
  \/ \E k \in Ids : \E row :
       /\ part' = [part EXCEPT ![k] = row]
       /\ \/ row = Gone
          \/ Present(k) /\ row.room = part[k].room /\ row.user = part[k].user

\* No other record is that of the same person in the same room.
Only(k, row) ==
  \A j \in Ids : j # k /\ Present(j) /\ Real(row) /\ row.user # NoUser
                 /\ part[j].room = row.room => part[j].user # row.user

LEMMA OnlyOneRow ==
  ASSUME IInv, OneRow, NEW k \in Ids, NEW row, part' = [part EXCEPT ![k] = row], Only(k, row)
  PROVE  OneRow'
  <1>1. part \in [Ids -> Row \union {NoRow, Gone}]
    BY DEF IInv, PartInv
  <1>2. part'[k] = row /\ \A j \in Ids : j # k => part'[j] = part[j]
    BY <1>1
  <1>3. QED
    BY <1>2 DEF OneRow, Only, Present, Real

LEMMA UniqueKept ==
  ASSUME IInv, OneRow, NEW c \in Calls, Unique(c)
  PROVE  OneRow'
  <1>1. CASE part' = part
    BY <1>1 DEF OneRow, Present
  <1>2. ASSUME NEW k \in Ids, NEW row, Save(k, row) PROVE OneRow'
    <2>1. /\ row.user # NoUser => RowsOf(row.room, row.user) \subseteq {k}
          /\ part' = [part EXCEPT ![k] = row]
      BY <1>2 DEF Save
    <2>2. ASSUME NEW j \in Ids, j # k, Present(j), row.user # NoUser, part[j].room = row.room
          PROVE  part[j].user # row.user
      <3>1. part[j].user = row.user => j \in RowsOf(row.room, row.user)
        BY <2>2 DEF RowsOf
      <3>2. QED
        BY <2>1, <2>2, <3>1
    <2>3. Only(k, row)
      BY <2>2 DEF Only
    <2>4. QED
      BY <2>1, <2>3, OnlyOneRow
  <1>3. ASSUME NEW k \in Ids, part' = [part EXCEPT ![k] = Gone] PROVE OneRow'
    <2>1. Only(k, Gone)
      BY GoneRow DEF Real, Only
    <2>2. QED
      BY <1>3, <2>1, OnlyOneRow
  <1>4. ASSUME NEW k \in Ids, NEW row, part' = [part EXCEPT ![k] = row], Present(k),
               row.room = part[k].room, row.user = part[k].user
        PROVE  OneRow'
    <2>1. Only(k, row)
      BY <1>4 DEF OneRow, Only
    <2>2. QED
      BY <1>4, <2>1, OnlyOneRow
  <1>5. QED
    BY <1>1, <1>2, <1>3, <1>4 DEF Unique

LEMMA StatementUnique ==
  ASSUME IInv, NEW c \in Calls, Statement(c)
  PROVE  Unique(c)
  <1>1. at[c] \in Local /\ Call(at[c], entitled, Kinds)
    BY Facts
  <1>2. CASE SaveParticipant(c) \/ Accept(c)
    <2>1. at[c].id \in Ids
      BY <1>1, <1>2 DEF SaveParticipant, Accept, Call, WithId, WithRow, WithClaim
    <2>2. QED
      BY <1>2, <2>1 DEF SaveParticipant, Accept, Unique
  <1>3. CASE Promote(c) \/ MarkLeft(c)
    <2>1. PICK y \in at[c].list : Save(y.id, y.row)
      BY <1>3 DEF Promote, MarkLeft
    <2>2. y.id \in Ids
      BY <1>1, <2>1 DEF Local, Copy
    <2>3. QED
      BY <2>1, <2>2 DEF Unique
  <1>4. CASE CreateParticipant(c) \/ CreateInvitation(c)
    BY <1>4 DEF CreateParticipant, CreateInvitation, Insert, Unique
  <1>5. CASE MarkAsJoined(c) \/ RemoveRow(c) \/ DeleteRow(c)
    <2> DEFINE k == at[c].id
    <2>1. k \in Ids
      BY <1>1, <1>5 DEF MarkAsJoined, RemoveRow, DeleteRow, Call, WithId
    <2>2. CASE ~Present(k)
      BY <1>5, <2>2 DEF MarkAsJoined, RemoveRow, DeleteRow, Unique
    <2>3. CASE Present(k)
      <3>1. part[k] \in Row
        BY <2>1, <2>3, PresentRow
      <3>2. CASE MarkAsJoined(c)
        <4> DEFINE x == [part[k] EXCEPT !.status = "joined"]
        <4>1. part' = [part EXCEPT ![k] = x]
          BY <2>3, <3>2 DEF MarkAsJoined
        <4>2. x.room = part[k].room /\ x.user = part[k].user
          BY <3>1 DEF Row
        <4> HIDE DEF x
        <4>3. QED
          BY <2>1, <2>3, <4>1, <4>2 DEF Unique
      <3>3. CASE RemoveRow(c)
        <4> DEFINE x == [LeftRow(part[k]) EXCEPT !.status = "removed", !.removed = TRUE]
        <4>1. part' = [part EXCEPT ![k] = x]
          BY <2>3, <3>3 DEF RemoveRow
        <4>2. x.room = part[k].room /\ x.user = part[k].user
          BY <3>1 DEF Row, LeftRow
        <4> HIDE DEF x
        <4>3. QED
          BY <2>1, <2>3, <4>1, <4>2 DEF Unique
      <3>4. CASE DeleteRow(c)
        BY <2>1, <2>3, <3>4 DEF DeleteRow, Unique
      <3>5. QED
        BY <1>5, <3>2, <3>3, <3>4
    <2>4. QED
      BY <2>2, <2>3
  <1>6. CASE \/ SaveRoom(c) \/ CheckInvited(c) \/ FindParticipant(c) \/ CountHost(c)
             \/ LeaveCount(c) \/ CountActive(c) \/ AutoEnd(c) \/ FindNewHost(c)
             \/ PromoteInRoom(c) \/ ListActive(c) \/ SaveEnded(c) \/ FindWaiting(c)
             \/ CountAdmitted(c) \/ FindBlocked(c) \/ CountRemoved(c) \/ FindOldHost(c)
             \/ FindNextHost(c) \/ UpdateHostID(c) \/ CheckEmail(c) \/ FindRoom(c)
    <2>1. part' = part
      BY <1>6, Zenon
         DEF SaveRoom, CheckInvited, FindParticipant, CountHost, LeaveCount, CountActive,
             AutoEnd, FindNewHost, PromoteInRoom, ListActive, SaveEnded, FindWaiting,
             CountAdmitted, FindBlocked, CountRemoved, FindOldHost, FindNextHost,
             UpdateHostID, CheckEmail, FindRoom
    <2>2. QED
      BY <2>1 DEF Unique
  <1>7. QED
    BY <1>2, <1>3, <1>4, <1>5, <1>6 DEF Statement

LEMMA QuietPart ==
  ASSUME \/ \E c \in Calls : NewCall(c) \/ Return(c)
         \/ \E u \in Users, r \in Rooms : GetMyParticipantStatus(u, r)
         \/ UNCHANGED vars
  PROVE  part' = part
  <1>1. ASSUME NEW c \in Calls, NewCall(c) PROVE part' = part
    <2>1. PICK u \in Users, r \in Rooms : NewCall(c)!(u, r)
      BY <1>1 DEF NewCall
    <2>2. CASE LiveKitEvent(c, u, r) \/ MemberRequest(c, u, r)
      BY <2>2, Zenon DEF LiveKitEvent, MemberRequest, StartRoom, EndRoom, ParticipantJoined,
                         LeaveRoom, JoinRoom
    <2>3. CASE RecordRequest(c, u, r)
      BY <2>3, Zenon DEF RecordRequest, AdmitParticipant, DenyParticipant, BlockParticipant,
                         RemoveParticipant, HostCall
    <2>4. CASE HostRequest(c, u, r) \/ InvitationRequest(c, u, r)
      BY <2>4, Zenon DEF HostRequest, InvitationRequest, TransferHost, InviteUserByEmail,
                         AcceptInvitation, DeclineInvitation
    <2>5. QED
      BY <2>1, <2>2, <2>3, <2>4
  <1>2. QED
    BY <1>1 DEF Return, GetMyParticipantStatus, vars

LEMMA OneRowInit == Init => OneRow
  <1> SUFFICES ASSUME Init PROVE OneRow
    OBVIOUS
  <1>1. PICK h \in [Rooms -> Users], ty \in [Rooms -> Types], own \in [Rooms -> Ids] :
           Init!(h, ty, own)
    BY DEF Init
  <1>2. ASSUME NEW i \in Ids, Present(i) PROVE part[i].room \in Rooms /\ own[part[i].room] = i
    <2>1. PICK r \in Rooms : own[r] = i /\ part[i] = NewParticipant(r, h[r], "host", "invited")
      BY <1>1, <1>2 DEF Present, NoRow
    <2>2. QED
      BY <2>1 DEF NewParticipant, NoRow
  <1>3. QED
    BY <1>2 DEF OneRow

LEMMA OneRowStep == IInv /\ OneRow /\ [Next]_vars => OneRow'
  <1> SUFFICES ASSUME IInv, OneRow, [Next]_vars PROVE OneRow'
    OBVIOUS
  <1>1. CASE \E c \in Calls : Statement(c)
    BY <1>1, StatementUnique, UniqueKept
  <1>2. CASE part' = part
    BY <1>2 DEF OneRow, Present
  <1>3. QED
    BY <1>1, <1>2, QuietPart DEF Next, Quiescent

-----------------------------------------------------------------------------
(* The theorem *)

\* The one record of a person whom a settled removal bans from a room.
LEMMA BannedStep ==
  ASSUME AInv, AInv', OneRow', [Next]_vars, NEW r \in Rooms, NEW u \in Users, Banned(r, u)
  PROVE  Banned(r, u)' /\ ~Waits(r, u)'
  <1>1. PICK i \in Ids : i \in RowsOf(r, u) /\ Settled(i)
    BY DEF Banned, RowsOf
  <1>2. Settled(i)' /\ part'[i].room = r /\ part'[i].user = u
    <2>1. CASE \E c \in Calls : NewCall(c) \/ Statement(c) \/ Return(c)
      <3>1. PICK c \in Calls : NewCall(c) \/ Statement(c) \/ Return(c)
        BY <2>1
      <3>2. Spares(c, i)
        BY <1>1, <3>1, NewCallSpares, StatementSpares, QuietSpares
      <3>3. Settled(i)' /\ Stands(i)
        BY <1>1, <3>2, StaysSettled DEF Spares
      <3>4. Careful(c)
        BY <3>1, NewCallCareful, StatementCareful, QuietCareful DEF AInv
      <3>5. Whose(part'[i]) = Whose(part[i])
        BY <1>1, <3>3, <3>4, RecordKept DEF Settled, Stands
      <3>6. QED
        BY <1>1, <3>3, <3>5 DEF Stands, Whose, RowsOf
    <2>2. CASE UNCHANGED <<part, at>>
      BY <1>1, <2>2 DEF Settled, Copies, Present, RowsOf
    <2>3. QED
      BY <2>1, <2>2 DEF Next, vars, Quiescent, GetMyParticipantStatus
  <1>3. Present(i)' /\ part'[i].removed
    BY <1>2 DEF Settled
  <1>4. part'[i].status \notin {"invited", "waiting"}
    BY <1>3 DEF AInv, IInv, PartInv, GoodRow
  <1>5. Banned(r, u)'
    BY <1>2, <1>3 DEF Banned, RowsOf
  <1>6. ASSUME NEW k \in Ids, Present(k)', part'[k].room = r, part'[k].user = u PROVE k = i
    BY <1>2, <1>3, <1>6, RoomNames DEF OneRow
  <1>7. QED
    BY <1>4, <1>5, <1>6 DEF Waits, RowsOf

\* Once no call that read the record before, and no denial of it, is running any more, a
\* removal or a block keeps the person out of the waiting room and from being invited, for
\* good and whatever is called from then on.
THEOREM RemovalsSettle == Spec => RemovalSettles
  <1>1. Spec => []OneRow
    BY OneRowInit, OneRowStep, Invariance, PTL DEF Spec
  <1>2. AInv /\ AInv' /\ OneRow' /\ [Next]_vars =>
          \A r \in Rooms, u \in Users : Banned(r, u) => Banned(r, u)' /\ ~Waits(r, u)'
    BY BannedStep
  <1>3. QED
    BY <1>1, <1>2, AInvariance, PTL DEF Spec, RemovalSettles


=============================================================================
