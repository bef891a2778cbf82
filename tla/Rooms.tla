------------------------------- MODULE Rooms --------------------------------
(***************************************************************************)
(* Rooms and participants: internal/usecase/room/room_service.go over the  *)
(* tables rooms and participants.                                          *)
(*                                                                         *)
(* A call is a running request of the API or a LiveKit webhook handler.    *)
(* One action is one SQL statement with the checks up to the next one: no  *)
(* operation runs in a transaction, most of them read a row, change the    *)
(* copy and save all of it, so that calls overwrite one another.           *)
(***************************************************************************)
EXTENDS Naturals, FiniteSets

CONSTANTS
  Rooms, Users,     \* a user stands for his id and for his e-mail address
  Ids,              \* bound: primary keys of participants, never used twice
  Calls,            \* bound: calls that may run at the same time
  Types,            \* types a room is created with
  MaxParticipants,  \* rooms.max_participants, 2 to 10 in the code
  MaxCalls,         \* bound: calls in a behaviour
  NoRoom, NoUser, NoId

ASSUME RoomBounds == MaxParticipants \in Nat /\ MaxCalls \in Nat
ASSUME RoomNames  == NoRoom \notin Rooms /\ NoUser \notin Users /\ NoId \notin Ids

VARIABLES
  rooms,     \* the rooms table
  part,      \* the participants table
  at,        \* each call: its next statement and what it holds in its locals
  tokens,    \* who has been given a LiveKit token, and for which room
  entitled,  \* history: who made a room, was invited or admitted to it, or accepted, and
             \* who was admitted by somebody who hosts only elsewhere
  started    \* calls started so far

vars == <<rooms, part, at, tokens, entitled, started>>

Statuses == {"none", "deleted", "invited", "waiting", "joined", "left", "removed",
             "declined", "denied"}
Reasons  == {"host", "invited", "admitted", "accepted", "elsewhere"}
PCs      == {"idle", "join_auth", "join_row", "join_create", "join_save", "join_count",
             "save_room", "leave_save", "leave_count", "leave_check", "leave_end",
             "promote_row", "promote_save", "promote_room", "end_list", "end_room",
             "end_rows", "admit_row", "admit_mark", "admit_count", "deny_row",
             "deny_delete", "block_row", "block_save", "remove_row", "remove_count",
             "transfer_old", "transfer_new", "transfer_demote", "transfer_promote",
             "transfer_host", "connect_save", "invite_check", "invite_create",
             "accept_room", "accept_save", "decline_save"}

Room == [status : {"scheduled", "active", "ended"}, host : Users, count : Nat, type : Types]
Row  == [room : Rooms, user : Users \union {NoUser}, email : Users \union {NoUser},
         status : Statuses, role : {"host", "participant"}, left : BOOLEAN, removed : BOOLEAN]

NoSnap == [status |-> "none", host |-> NoUser, count |-> 0, type |-> "none"]
NoRow  == [room |-> NoRoom, user |-> NoUser, email |-> NoUser, status |-> "none",
           role |-> "participant", left |-> FALSE, removed |-> FALSE]
Gone   == [NoRow EXCEPT !.status = "deleted"]

Copy  == [id : Ids, row : Row]
Local == [pc : PCs, room : Rooms \union {NoRoom}, user : Users \union {NoUser},
          other : Users \union {NoUser}, id : Ids \union {NoId},
          snap : Room \union {NoSnap}, row : Row \union {NoRow},
          was : BOOLEAN, list : SUBSET Copy]

TypeOK ==
  /\ rooms \in [Rooms -> Room]
  /\ part \in [Ids -> Row \union {NoRow, Gone}]
  /\ at \in [Calls -> Local]
  /\ tokens \in SUBSET (Rooms \X Users)
  /\ entitled \in SUBSET (Rooms \X Users \X Reasons)
  /\ started \in Nat

Idle == [pc |-> "idle", room |-> NoRoom, user |-> NoUser, other |-> NoUser, id |-> NoId,
         snap |-> NoSnap, row |-> NoRow, was |-> FALSE, list |-> {}]

Frame(pc, r, u) == [Idle EXCEPT !.pc = pc, !.room = r, !.user = u]

NewParticipant(r, u, role, status) ==
  [NoRow EXCEPT !.room = r, !.user = u, !.role = role, !.status = status]

\* A room that CreateRoom has just made: nobody in it, its creator invited as the host.
Init ==
  \E h \in [Rooms -> Users], ty \in [Rooms -> Types], own \in [Rooms -> Ids] :
    /\ \A r, s \in Rooms : own[r] = own[s] => r = s
    /\ rooms = [r \in Rooms |->
                  [status |-> "scheduled", host |-> h[r], count |-> 0, type |-> ty[r]]]
    /\ part = [i \in Ids |->
                 IF \E r \in Rooms : own[r] = i
                 THEN LET r == CHOOSE r \in Rooms : own[r] = i IN
                      NewParticipant(r, h[r], "host", "invited")
                 ELSE NoRow]
    /\ at = [c \in Calls |-> Idle]
    /\ tokens = {<<r, h[r]>> : r \in Rooms}
    /\ entitled = {<<r, h[r], "host">> : r \in Rooms}
    /\ started = 0

-----------------------------------------------------------------------------
(* Queries and updates *)

Present(i)        == part[i].status \notin {"none", "deleted"}
RowsOf(r, u)      == {i \in Ids : Present(i) /\ part[i].room = r /\ part[i].user = u}
Active(r)         == {i \in Ids : part[i].room = r /\ part[i].status = "joined" /\ ~part[i].left}

\* Mutant: whose the invitation is does not matter.
InvitationsOfRoom(r, e) == {i \in Ids : part[i].room = r /\ part[i].status = "invited"}

Invitations(r, e) == {i \in Ids : part[i].room = r /\ part[i].email = e
                                  /\ part[i].status = "invited"}

\* gorm's Save writes every column, and inserts the row again if it has been deleted.
\* (room_id, user_id) is unique: otherwise the statement fails.
Save(i, row) ==
  /\ row.user # NoUser => RowsOf(row.room, row.user) \subseteq {i}
  /\ part' = [part EXCEPT ![i] = row]

Insert(row) == \E i \in Ids : part[i].status = "none" /\ Save(i, row)

\* roomRepo.Update: gorm's Updates leaves columns alone whose value is zero, and takes
\* host_id from the Host that was loaded with the room.
Update(r, room) ==
  rooms' = [rooms EXCEPT ![r].status = room.status,
                         ![r].host   = room.host,
                         ![r].count  = IF room.count = 0 THEN @ ELSE room.count]

AddCount(r) == rooms' = [rooms EXCEPT ![r].count = @ + 1]

\* Mutant: the count is not kept from going below zero.
FewerUnguarded(n) == n - 1

Fewer(n) == IF n > 0 THEN n - 1 ELSE n

SubCount(r) == rooms' = [rooms EXCEPT ![r].count = Fewer(@)]

Begin(c, local) ==
  /\ at[c] = Idle /\ started < MaxCalls
  /\ started' = started + 1
  /\ at' = [at EXCEPT ![c] = local]

Step(c, local) == at' = [at EXCEPT ![c] = local] /\ UNCHANGED started
Goto(c, pc)    == Step(c, IF pc = "idle" THEN Idle ELSE [at[c] EXCEPT !.pc = pc])
Done(c)        == Step(c, Idle)

-----------------------------------------------------------------------------
(* StartRoom; also the handler of room_started, with the host the room has *)

StartRoom(c, u, r) ==
  /\ rooms[r].host = u /\ rooms[r].status # "ended"
  /\ Begin(c, [Frame("save_room", r, u) EXCEPT !.snap = [rooms[r] EXCEPT !.status = "active"]])
  /\ UNCHANGED <<rooms, part, tokens, entitled>>

\* The last statement of StartRoom, JoinRoom, AcceptInvitationByEmail and promoteNewHost.
SaveRoom(c) ==
  /\ at[c].pc = "save_room"
  /\ Update(at[c].room, at[c].snap)
  /\ Done(c)
  /\ UNCHANGED <<part, tokens, entitled>>

-----------------------------------------------------------------------------
(* JoinRoom *)

\* Mutant: rooms that need an invitation are open to everybody.
OpenToAll(room, u) == TRUE

OpenTo(room, u) == room.host = u \/ room.type = "public"

JoinRoom(c, u, r) ==
  /\ rooms[r].status # "ended"
  /\ rooms[r].count < MaxParticipants
  /\ Begin(c, [Frame(IF OpenTo(rooms[r], u) THEN "join_row" ELSE "join_auth", r, u)
                 EXCEPT !.snap = rooms[r]])
  /\ UNCHANGED <<rooms, part, tokens, entitled>>

\* checkJoinAuthorization of a private or scheduled room
CheckInvited(c) ==
  /\ at[c].pc = "join_auth"
  /\ \E i \in RowsOf(at[c].room, at[c].user) : part[i].status = "invited"
  /\ Goto(c, "join_row")
  /\ UNCHANGED <<rooms, part, tokens, entitled>>

\* Mutant: everybody goes straight in.
JoinStatusOpen(room, u) == "joined"

JoinStatus(room, u) == IF room.host = u THEN "joined" ELSE "waiting"

\* Mutant: is_removed is not looked at.
MayRejoinRemoved(row) == row.status \in {"left", "invited", "waiting"}

MayRejoin(row) == row.status \in {"left", "invited", "waiting"} /\ ~row.removed

\* left_at is not cleared.
FindParticipant(c) ==
  LET l == at[c] IN
  /\ l.pc = "join_row"
  /\ \/ /\ RowsOf(l.room, l.user) = {}
        /\ Goto(c, "join_create")
     \/ \E i \in RowsOf(l.room, l.user) :
          /\ MayRejoin(part[i])
          /\ Step(c, [l EXCEPT !.pc = "join_save", !.id = i,
                               !.row = [part[i] EXCEPT !.status = JoinStatus(l.snap, l.user)]])
  /\ UNCHANGED <<rooms, part, tokens, entitled>>

AfterJoin(l) == IF l.snap.host = l.user THEN "join_count" ELSE "idle"

CreateParticipant(c) ==
  LET l == at[c] IN
  /\ l.pc = "join_create"
  /\ Insert(NewParticipant(l.room, l.user,
                           IF l.snap.host = l.user THEN "host" ELSE "participant",
                           JoinStatus(l.snap, l.user)))
  /\ Goto(c, AfterJoin(l))
  /\ UNCHANGED <<rooms, tokens, entitled>>

\* The host is counted, gets his token, and starts the room if it was scheduled when read.
CountHost(c) ==
  LET l == at[c] IN
  /\ l.pc = "join_count"
  /\ AddCount(l.room)
  /\ tokens' = tokens \union {<<l.room, l.user>>}
  /\ IF l.snap.status = "scheduled"
     THEN Step(c, [l EXCEPT !.pc = "save_room", !.snap.status = "active"])
     ELSE Done(c)
  /\ UNCHANGED <<part, entitled>>

-----------------------------------------------------------------------------
(* LeaveRoom and promoteNewHost; also the handler of participant_left *)

LeftRow(row) == [row EXCEPT !.status = "left", !.left = TRUE]

LeaveRoom(c, u, r) ==
  /\ \E i \in RowsOf(r, u) :
       Begin(c, [Frame("leave_save", r, u) EXCEPT
                   !.id = i, !.row = LeftRow(part[i]), !.was = part[i].status = "joined"])
  /\ UNCHANGED <<rooms, part, tokens, entitled>>

LeaveCount(c) ==
  /\ at[c].pc = "leave_count"
  /\ SubCount(at[c].room)
  /\ Goto(c, "leave_check")
  /\ UNCHANGED <<part, tokens, entitled>>

CountActive(c) ==
  LET l == at[c] IN
  /\ l.pc = "leave_check"
  /\ Goto(c, IF Active(l.room) = {} THEN "leave_end"
             ELSE IF l.was /\ l.row.role = "host" THEN "promote_row" ELSE "idle")
  /\ UNCHANGED <<rooms, part, tokens, entitled>>

AutoEnd(c) ==
  /\ at[c].pc = "leave_end"
  /\ rooms' = [rooms EXCEPT ![at[c].room].status = "ended"]
  /\ Done(c)
  /\ UNCHANGED <<part, tokens, entitled>>

\* The one who joined first; the times are abstracted.
FindNewHost(c) ==
  LET l == at[c] IN
  /\ l.pc = "promote_row"
  /\ \E i \in Active(l.room) :
       Step(c, [l EXCEPT !.pc = "promote_save", !.id = i, !.row = [part[i] EXCEPT !.role = "host"]])
  /\ UNCHANGED <<rooms, part, tokens, entitled>>

\* The room is read and its HostID set, but Update takes host_id from the loaded Host.
\* A record without a user makes the call panic.
PromoteInRoom(c) ==
  LET l == at[c] IN
  /\ l.pc = "promote_room" /\ l.row.user # NoUser
  /\ Step(c, [l EXCEPT !.pc = "save_room", !.snap = rooms[l.room]])
  /\ UNCHANGED <<rooms, part, tokens, entitled>>

-----------------------------------------------------------------------------
(* EndRoom; also the handler of room_finished *)

EndRoom(c, u, r) ==
  /\ rooms[r].host = u
  /\ Begin(c, [Frame("end_list", r, u) EXCEPT !.snap = [rooms[r] EXCEPT !.status = "ended"]])
  /\ UNCHANGED <<rooms, part, tokens, entitled>>

ListActive(c) ==
  LET l == at[c] IN
  /\ l.pc = "end_list"
  /\ \A i \in Active(l.room) : part[i].user # NoUser
  /\ Step(c, [l EXCEPT !.pc = "end_room",
                       !.list = {[id |-> i, row |-> LeftRow(part[i])] : i \in Active(l.room)}])
  /\ UNCHANGED <<rooms, part, tokens, entitled>>

SaveEnded(c) ==
  /\ at[c].pc = "end_room"
  /\ Update(at[c].room, at[c].snap)
  /\ Goto(c, IF at[c].list = {} THEN "idle" ELSE "end_rows")
  /\ UNCHANGED <<part, tokens, entitled>>

\* Each participant is saved as he was when listed, but for leaving.
MarkLeft(c) ==
  LET l == at[c] IN
  /\ l.pc = "end_rows"
  /\ \E x \in l.list :
       /\ Save(x.id, x.row)
       /\ IF l.list = {x} THEN Done(c) ELSE Step(c, [l EXCEPT !.list = @ \ {x}])
  /\ UNCHANGED <<rooms, tokens, entitled>>

-----------------------------------------------------------------------------
(* The host's operations on a participant's record: admit, deny, block, remove *)

\* Any record, of this room or another.
HostCall(c, u, r, i, pc) ==
  /\ rooms[r].host = u
  /\ Begin(c, [Frame(pc, r, u) EXCEPT !.id = i, !.snap = rooms[r]])
  /\ UNCHANGED <<rooms, part, tokens, entitled>>

AdmitParticipant(c, u, r, i) == rooms[r].status # "ended" /\ HostCall(c, u, r, i, "admit_row")
DenyParticipant(c, u, r, i)  == rooms[r].status # "ended" /\ HostCall(c, u, r, i, "deny_row")
BlockParticipant(c, u, r, i) == rooms[r].status # "ended" /\ HostCall(c, u, r, i, "block_row")
RemoveParticipant(c, u, r, i) == HostCall(c, u, r, i, "remove_row")

FindWaiting(c) ==
  /\ at[c].pc \in {"admit_row", "deny_row"}
  /\ part[at[c].id].status = "waiting"
  /\ Goto(c, IF at[c].pc = "admit_row" THEN "admit_mark" ELSE "deny_delete")
  /\ UNCHANGED <<rooms, part, tokens, entitled>>

\* The caller hosted the record's room when his call was checked, or hosts it now.
HostsRecord(c, i) == part[i].room = at[c].room \/ rooms[part[i].room].host = at[c].user

Admission(c, i) == IF HostsRecord(c, i) THEN "admitted" ELSE "elsewhere"

\* An UPDATE by id: it does not look at the row again, which may have another status by
\* now, or (BlockParticipant of an invitation being accepted) no user; and it does nothing
\* to a row that has been deleted.
MarkAsJoined(c) ==
  LET i == at[c].id IN
  /\ at[c].pc = "admit_mark"
  /\ IF Present(i)
     THEN /\ part' = [part EXCEPT ![i].status = "joined"]
          /\ entitled' = entitled \union
                            ({part[i].room} \X ({part[i].user} \ {NoUser})
                                            \X {Admission(c, i)})
     ELSE UNCHANGED <<part, entitled>>
  /\ Goto(c, "admit_count")
  /\ UNCHANGED <<rooms, tokens>>

CountAdmitted(c) ==
  /\ at[c].pc = "admit_count"
  /\ AddCount(at[c].room)
  /\ Done(c)
  /\ UNCHANGED <<part, tokens, entitled>>

DeleteRow(c) ==
  LET i == at[c].id IN
  /\ at[c].pc = "deny_delete"
  /\ part' = IF Present(i) THEN [part EXCEPT ![i] = Gone] ELSE part
  /\ Done(c)
  /\ UNCHANGED <<rooms, tokens, entitled>>

FindBlocked(c) ==
  LET l == at[c] IN
  /\ l.pc = "block_row"
  /\ Present(l.id) /\ part[l.id].user # l.snap.host
  /\ Step(c, [l EXCEPT !.pc = "block_save",
                       !.row = [part[l.id] EXCEPT !.status = "denied", !.removed = TRUE]])
  /\ UNCHANGED <<rooms, part, tokens, entitled>>

RemoveRow(c) ==
  LET i == at[c].id IN
  /\ at[c].pc = "remove_row"
  /\ part' = IF Present(i)
             THEN [part EXCEPT ![i] = [LeftRow(@) EXCEPT !.status = "removed", !.removed = TRUE]]
             ELSE part
  /\ Goto(c, "remove_count")
  /\ UNCHANGED <<rooms, tokens, entitled>>

\* Whether or not a participant was in the room.
CountRemoved(c) ==
  /\ at[c].pc = "remove_count"
  /\ SubCount(at[c].room)
  /\ Done(c)
  /\ UNCHANGED <<part, tokens, entitled>>

-----------------------------------------------------------------------------
(* TransferHost *)

TransferHost(c, u, v, r) ==
  /\ rooms[r].host = u /\ u # v
  /\ Begin(c, [Frame("transfer_old", r, u) EXCEPT !.other = v])
  /\ UNCHANGED <<rooms, part, tokens, entitled>>

FindOldHost(c) ==
  LET l == at[c] IN
  /\ l.pc = "transfer_old"
  /\ \E i \in RowsOf(l.room, l.user) :
       Step(c, [l EXCEPT !.pc = "transfer_new", !.id = i,
                         !.row = [part[i] EXCEPT !.role = "participant"]])
  /\ UNCHANGED <<rooms, part, tokens, entitled>>

\* Mutant: the new host need not have joined.
MayHostAnyone(row) == TRUE

MayHost(row) == row.status = "joined"

FindNextHost(c) ==
  LET l == at[c] IN
  /\ l.pc = "transfer_new"
  /\ \E i \in RowsOf(l.room, l.other) :
       /\ MayHost(part[i])
       /\ Step(c, [l EXCEPT !.pc = "transfer_demote",
                            !.list = {[id |-> i, row |-> [part[i] EXCEPT !.role = "host"]]}])
  /\ UNCHANGED <<rooms, part, tokens, entitled>>

Promote(c) ==
  /\ at[c].pc = "transfer_promote"
  /\ \E x \in at[c].list : Save(x.id, x.row)
  /\ Goto(c, "transfer_host")
  /\ UNCHANGED <<rooms, tokens, entitled>>

UpdateHostID(c) ==
  LET l == at[c] IN
  /\ l.pc = "transfer_host"
  /\ rooms' = [rooms EXCEPT ![l.room].host = l.other]
  /\ Done(c)
  /\ UNCHANGED <<part, tokens, entitled>>

-----------------------------------------------------------------------------
(* Invitations by e-mail *)

InviteUserByEmail(c, u, r, e) ==
  /\ \E i \in RowsOf(r, u) : part[i].role = "host"
  /\ Begin(c, [Frame("invite_check", r, u) EXCEPT !.other = e])
  /\ UNCHANGED <<rooms, part, tokens, entitled>>

\* Any error of the query is taken for there being no invitation; if it finds one, the call
\* returns.
CheckEmail(c) ==
  /\ at[c].pc = "invite_check"
  /\ Goto(c, "invite_create")
  /\ UNCHANGED <<rooms, part, tokens, entitled>>

CreateInvitation(c) ==
  LET l == at[c] IN
  /\ l.pc = "invite_create"
  /\ Insert([NewParticipant(l.room, NoUser, "participant", "invited") EXCEPT !.email = l.other])
  /\ entitled' = entitled \union {<<l.room, l.other, "invited">>}
  /\ Done(c)
  /\ UNCHANGED <<rooms, tokens>>

AcceptInvitation(c, u, r) ==
  /\ \E i \in Invitations(r, u) :
       Begin(c, [Frame("accept_room", r, u) EXCEPT
                   !.id = i, !.row = [part[i] EXCEPT !.user = u, !.status = "joined"]])
  /\ UNCHANGED <<rooms, part, tokens, entitled>>

FindRoom(c) ==
  LET l == at[c] IN
  /\ l.pc = "accept_room"
  /\ rooms[l.room].status # "ended"
  /\ Step(c, [l EXCEPT !.pc = "accept_save", !.snap = rooms[l.room]])
  /\ UNCHANGED <<rooms, part, tokens, entitled>>

\* Then the count is written back from the room read before, if that was active.
Accept(c) ==
  LET l == at[c] IN
  /\ l.pc = "accept_save"
  /\ Save(l.id, l.row)
  /\ tokens' = tokens \union {<<l.room, l.user>>}
  /\ entitled' = entitled \union {<<l.room, l.user, "accepted">>}
  /\ IF l.snap.status = "active"
     THEN Step(c, [l EXCEPT !.pc = "save_room", !.snap.count = @ + 1])
     ELSE Done(c)
  /\ UNCHANGED rooms

DeclineInvitation(c, u, r) ==
  /\ \E i \in Invitations(r, u) :
       Begin(c, [Frame("decline_save", r, u) EXCEPT
                   !.id = i, !.row = [part[i] EXCEPT !.user = u, !.status = "declined"]])
  /\ UNCHANGED <<rooms, part, tokens, entitled>>

-----------------------------------------------------------------------------
(* UpdateParticipantStatus, called by the handler of participant_joined; tokens *)

\* LiveKit reports who connects with a token of the room, however old.
ParticipantJoined(c, u, r) ==
  /\ <<r, u>> \in tokens
  /\ \E i \in RowsOf(r, u) :
       /\ part[i].status # "joined"
       /\ Begin(c, [Frame("connect_save", r, u) EXCEPT
                      !.id = i, !.row = [part[i] EXCEPT !.status = "joined"]])
  /\ UNCHANGED <<rooms, part, tokens, entitled>>

GetMyParticipantStatus(u, r) ==
  /\ \E i \in RowsOf(r, u) : part[i].status = "joined"
  /\ tokens' = tokens \union {<<r, u>>}
  /\ UNCHANGED <<rooms, part, at, entitled, started>>

-----------------------------------------------------------------------------
(* participantRepo.Update of the row a call has read and changed, and what follows *)

AfterSave(l) ==
  CASE l.pc = "join_save"       -> AfterJoin(l)
    [] l.pc = "leave_save"      -> IF l.was THEN "leave_count" ELSE "leave_check"
    [] l.pc = "promote_save"    -> "promote_room"
    [] l.pc = "transfer_demote" -> "transfer_promote"
    [] OTHER                    -> "idle"

SaveParticipant(c) ==
  LET l == at[c] IN
  /\ l.pc \in {"join_save", "leave_save", "promote_save", "transfer_demote",
               "block_save", "connect_save", "decline_save"}
  /\ Save(l.id, l.row)
  /\ Goto(c, AfterSave(l))
  /\ UNCHANGED <<rooms, tokens, entitled>>

\* A check refuses the call, a statement fails, or the client goes away and the request's
\* context is cancelled: what was written stays written.
Return(c) ==
  /\ at[c] # Idle
  /\ Done(c)
  /\ UNCHANGED <<rooms, part, tokens, entitled>>

-----------------------------------------------------------------------------
(* The specification *)

\* HandleLiveKitWebhookV2: room_started, room_finished, participant_joined, participant_left.
LiveKitEvent(c, u, r) ==
  StartRoom(c, u, r) \/ EndRoom(c, u, r) \/ ParticipantJoined(c, u, r) \/ LeaveRoom(c, u, r)

\* POST and DELETE /rooms/:id/participants, PATCH /rooms/:id
MemberRequest(c, u, r) == JoinRoom(c, u, r) \/ LeaveRoom(c, u, r) \/ EndRoom(c, u, r)

\* Requests about one record: POST .../:pid/admit, deny, block and DELETE .../:pid
RecordRequest(c, u, r) ==
  \E i \in Ids : \/ AdmitParticipant(c, u, r, i) \/ DenyParticipant(c, u, r, i)
                 \/ BlockParticipant(c, u, r, i) \/ RemoveParticipant(c, u, r, i)

\* PATCH /rooms/:id/host
HostRequest(c, u, r) == \E v \in Users : TransferHost(c, u, v, r)

\* POST /rooms/:id/invitations, and accept and decline under it
InvitationRequest(c, u, r) ==
  \/ \E v \in Users : InviteUserByEmail(c, u, r, v)
  \/ AcceptInvitation(c, u, r) \/ DeclineInvitation(c, u, r)

NewCall(c) ==
  \E u \in Users, r \in Rooms :
    \/ LiveKitEvent(c, u, r) \/ MemberRequest(c, u, r) \/ RecordRequest(c, u, r)
    \/ HostRequest(c, u, r) \/ InvitationRequest(c, u, r)

Statement(c) ==
  \/ SaveRoom(c) \/ SaveParticipant(c)
  \/ CheckInvited(c) \/ FindParticipant(c) \/ CreateParticipant(c) \/ CountHost(c)
  \/ LeaveCount(c) \/ CountActive(c) \/ AutoEnd(c) \/ FindNewHost(c) \/ PromoteInRoom(c)
  \/ ListActive(c) \/ SaveEnded(c) \/ MarkLeft(c)
  \/ FindWaiting(c) \/ MarkAsJoined(c) \/ CountAdmitted(c) \/ DeleteRow(c)
  \/ FindBlocked(c) \/ RemoveRow(c) \/ CountRemoved(c)
  \/ FindOldHost(c) \/ FindNextHost(c) \/ Promote(c) \/ UpdateHostID(c)
  \/ CheckEmail(c) \/ CreateInvitation(c) \/ FindRoom(c) \/ Accept(c)

\* Nobody calls any more.
Quiescent ==
  /\ started = MaxCalls /\ \A c \in Calls : at[c] = Idle
  /\ UNCHANGED vars

Next ==
  \/ \E c \in Calls : NewCall(c) \/ Statement(c) \/ Return(c)
  \/ \E u \in Users, r \in Rooms : GetMyParticipantStatus(u, r)
  \/ Quiescent

Spec == Init /\ [][Next]_vars

-----------------------------------------------------------------------------
(* Properties *)

Inside(r, u) == \E i \in RowsOf(r, u) : part[i].status = "joined"

\* Whom somebody who may do so has let in: he made the room, its host admitted him, or he
\* accepted an invitation to it.  And who may ask to be let in to a private room.
LetIn(r, u)    == \E why \in {"host", "admitted", "accepted"} : <<r, u, why>> \in entitled
Expected(r, u) == \E why \in {"host", "invited"} : <<r, u, why>> \in entitled

\* The host of another room admitted him: AdmitParticipant compares the caller with the
\* host of the room in the path and never looks at the room of the record, although
\* docs/API_DESCRIPTION.md (410-416, 691) lets only the room's host admit.
LetInElsewhere(r, u) == <<r, u, "elsewhere">> \in entitled

CameIn(r, u) == LetIn(r, u) \/ LetInElsewhere(r, u)

\* The waiting room holds but for one way around it: whoever is in a room, or has a token
\* for it, made it, was admitted to it by its host or accepted an invitation, or else a
\* record of his was admitted by the host of another room.  There is no other way in,
\* whatever calls and LiveKit events overlap and whatever stale copies are saved.
WaitingRoomHolds ==
  \A r \in Rooms, u \in Users :
    Inside(r, u) \/ <<r, u>> \in tokens => LetIn(r, u) \/ LetInElsewhere(r, u)

\* Only those who came into a room that way ever become its host, in rooms.host_id or by
\* their role, which gives them the administrator's token: by TransferHost, by promotion,
\* or by a stale room or participant written back.
HostsWereAdmitted ==
  /\ \A r \in Rooms : CameIn(r, rooms[r].host)
  /\ \A i \in Ids : Present(i) /\ part[i].role = "host" /\ part[i].user # NoUser =>
                      CameIn(part[i].room, part[i].user)

\* The records a call holds in its locals.
Copies(l) == {[id |-> l.id, row |-> l.row]} \union l.list

\* A removal or block that no running call can undo: no call holds a copy of the record
\* from before it, or is about to delete the record.
Settled(i) ==
  /\ Present(i) /\ part[i].removed
  /\ \A c \in Calls :
       /\ \A x \in Copies(at[c]) : x.id = i /\ x.row # NoRow =>
                                    x.row.removed /\ x.row.user = part[i].user
       /\ at[c].pc = "deny_delete" => at[c].id # i

Banned(r, u) == \E i \in RowsOf(r, u) : Settled(i)
Waits(r, u)  == \E i \in RowsOf(r, u) : part[i].status \in {"waiting", "invited"}

\* A removal or a block that overlaps a call may be lost: JoinRoom saves the row it has
\* read before, in the waiting room and not removed, and DenyParticipant deletes the row
\* that BlockParticipant has marked.  But once no such call is running any more the mark
\* stands, whatever is called from then on and whatever those calls save late: the record
\* of that user in that room is neither put into the waiting room again, where a click
\* would admit him, nor made an invitation, which would open a private room to him.
RemovalSettles ==
  [][\A r \in Rooms, u \in Users : Banned(r, u) => Banned(r, u)' /\ ~Waits(r, u)']_vars

\* A private room has records only of its maker and of users who were invited by e-mail,
\* and only they become its host: nobody else gets as far as the waiting room, not even
\* by way of a transfer or of a record deleted and made again.
PrivateByInvitation ==
  /\ \A r \in Rooms : rooms[r].type # "public" => Expected(r, rooms[r].host)
  /\ \A i \in Ids :
       Present(i) /\ rooms[part[i].room].type # "public" /\ part[i].user # NoUser =>
         Expected(part[i].room, part[i].user)

\* What RoomAccess sees of the tables.
Kinds     == [r \in Rooms |-> rooms[r].type]
Hosts     == [r \in Rooms |-> rooms[r].host]
Invitees  == {x \in Rooms \X Users : Expected(x[1], x[2])}
Guests    == {x \in Rooms \X Users : CameIn(x[1], x[2])}
Attending == {x \in Rooms \X Users : Inside(x[1], x[2])}

Access == INSTANCE RoomAccess WITH
  type <- Kinds, host <- Hosts, expected <- Invitees, letIn <- Guests, inside <- Attending

\* Rooms implements RoomAccess: whatever calls and LiveKit events overlap and whatever
\* stale copies are saved, a statement lets in, brings in, takes out or promotes at most
\* one person of one room, nobody is let in to a room that is not public unless it
\* expects him, and nobody ceases to be let in.
ImplementsAccess == Access!Spec

\* A participant's record stays that of one person in one room, from an invitation by
\* e-mail to the copies of it that calls save late.
Whose(row) == <<row.room, IF row.user = NoUser THEN row.email ELSE row.user>>

RecordsKeepTheirPerson ==
  [][\A i \in Ids : Present(i) /\ Present(i)' => Whose(part'[i]) = Whose(part[i])]_vars

\* Nobody is admitted to a room that was full when AdmitParticipant read it, as
\* docs/API_DESCRIPTION.md promises of POST .../admit.
AdmitRespectsCapacity ==
  [][\A c \in Calls : MarkAsJoined(c) => at[c].snap.count < MaxParticipants]_vars

\* A blocked participant is not in the room again: the comment on BlockParticipant.
BlockedStaysOut ==
  [][\A i \in Ids : part[i].status = "denied" => part'[i].status # "joined"]_vars

\* LeaveRoom ends a room only when it finds nobody in it: its comment "Check if room
\* should auto-end (no active participants)".
AutoEndsEmptyRooms ==
  [][\A c \in Calls : CountActive(c) /\ at'[c].pc = "leave_end" =>
                         ~\E u \in Users : Inside(at[c].room, u)]_vars

=============================================================================
