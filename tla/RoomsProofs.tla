---------------------------- MODULE RoomsProofs -----------------------------
(* Theorems about Rooms, for any number of rooms, users, records and calls.  *)
EXTENDS Rooms, TLAPS

(* What is proved of a row, a room and a call depends on the variables only  *)
(* by e, who has been let in or invited, and t, the rooms' types (Kinds).    *)

Known(r, u, e) == \E why \in {"host", "admitted", "accepted", "elsewhere"} : <<r, u, why>> \in e
Asked(r, u, e) == \E why \in {"host", "invited"} : <<r, u, why>> \in e

GoodRoom(r, room, e, t) ==
  /\ room \in Room /\ room.type = t[r]
  /\ Known(r, room.host, e)
  /\ t[r] # "public" => Asked(r, room.host, e)

\* What a user's record may say of him.
GoodUser(row, e, t) ==
  /\ row.status = "joined" => Known(row.room, row.user, e)
  /\ row.role = "host" => Known(row.room, row.user, e)
  /\ t[row.room] # "public" => Asked(row.room, row.user, e)

GoodRow(row, e, t) ==
  /\ row \in Row
  /\ row.status \in {"invited", "waiting", "declined"} => ~row.removed
  /\ row.status = "invited" /\ row.user = NoUser => row.role = "participant"
  /\ row.email # NoUser => row.user \in {NoUser, row.email} /\ Asked(row.room, row.email, e)
  /\ row.user # NoUser => GoodUser(row, e, t)

\* What a call holds, by its next statement.
WithSnap  == {"save_room", "join_auth", "join_row", "join_create", "join_save", "join_count",
              "end_list", "end_room", "accept_save"}
WithRow   == {"join_save", "leave_save", "promote_save", "transfer_demote", "block_save",
              "connect_save", "decline_save", "transfer_new"}
WithClaim == {"accept_room", "accept_save"}
WithId    == WithRow \union WithClaim \union
             {"admit_row", "admit_mark", "deny_row", "deny_delete", "block_row", "remove_row"}
WithList  == {"end_room", "end_rows", "transfer_demote", "transfer_promote"}
Joining   == {"join_row", "join_create", "join_save"}
Promoting == {"transfer_demote", "transfer_promote", "transfer_host"}
WithOther == Promoting \union {"transfer_old", "transfer_new", "invite_check", "invite_create"}

\* The row of an invitation being accepted says what holds once it has been saved.
Accepted(l, e) == e \union {<<l.room, l.user, "accepted">>}

Call(l, e, t) ==
  /\ l \in Local
  /\ l.pc # "idle" => l.room \in Rooms /\ l.user \in Users
  /\ l.pc \in WithSnap => GoodRoom(l.room, l.snap, e, t)
  /\ l.pc \in WithId => l.id \in Ids
  /\ l.pc \in WithRow => GoodRow(l.row, e, t)
  /\ l.pc \in WithClaim => GoodRow(l.row, Accepted(l, e), t)
  /\ l.pc \in WithList => \A x \in l.list : GoodRow(x.row, e, t)
  /\ l.pc \in Joining => (t[l.room] # "public" => Asked(l.room, l.user, e))
  /\ l.pc = "join_count" => l.snap.host = l.user
  /\ l.pc \in WithOther => l.other \in Users
  /\ l.pc \in Promoting => /\ Known(l.room, l.other, e)
                           /\ t[l.room] # "public" => Asked(l.room, l.other, e)

RoomsInv  == rooms \in [Rooms -> Room] /\ \A r \in Rooms : GoodRoom(r, rooms[r], entitled, Kinds)
PartInv   == /\ part \in [Ids -> Row \union {NoRow, Gone}]
             /\ \A i \in Ids : Present(i) => GoodRow(part[i], entitled, Kinds)
CallsInv  == at \in [Calls -> Local] /\ \A c \in Calls : Call(at[c], entitled, Kinds)
TokensInv == /\ tokens \in SUBSET (Rooms \X Users)
             /\ \A r \in Rooms, u \in Users : <<r, u>> \in tokens => Known(r, u, entitled)
ListInv   == entitled \in SUBSET (Rooms \X Users \X Reasons) /\ started \in Nat

IInv == RoomsInv /\ PartInv /\ CallsInv /\ TokensInv /\ ListInv

-----------------------------------------------------------------------------
(* Whoever has been let in stays let in *)

LEMMA MoreKnown ==
  ASSUME NEW e, NEW f, e \subseteq f, NEW r, NEW u
  PROVE  (Known(r, u, e) => Known(r, u, f)) /\ (Asked(r, u, e) => Asked(r, u, f))
  BY DEF Known, Asked

LEMMA MoreRoom ==
  ASSUME NEW e, NEW f, e \subseteq f, NEW t, NEW r, NEW room, GoodRoom(r, room, e, t)
  PROVE  GoodRoom(r, room, f, t)
  BY MoreKnown DEF GoodRoom

LEMMA MoreRow ==
  ASSUME NEW e, NEW f, e \subseteq f, NEW t, NEW row, GoodRow(row, e, t)
  PROVE  GoodRow(row, f, t)
  BY MoreKnown DEF GoodRow, GoodUser

LEMMA MoreCall ==
  ASSUME NEW e, NEW f, e \subseteq f, NEW t, NEW l, Call(l, e, t)
  PROVE  Call(l, f, t)
  <1>1. Accepted(l, e) \subseteq Accepted(l, f)
    BY DEF Accepted
  <1>2. l.pc \in WithClaim => GoodRow(l.row, Accepted(l, f), t)
    BY <1>1, MoreRow DEF Call
  <1>3. l.pc \in WithSnap => GoodRoom(l.room, l.snap, f, t)
    BY MoreRoom DEF Call
  <1>4. l.pc \in WithRow => GoodRow(l.row, f, t)
    BY MoreRow DEF Call
  <1>5. l.pc \in WithList => \A x \in l.list : GoodRow(x.row, f, t)
    BY MoreRow DEF Call
  <1>6. QED
    BY <1>2, <1>3, <1>4, <1>5, MoreKnown DEF Call

-----------------------------------------------------------------------------
(* A step is good if what it writes is good *)

LEMMA Keeps ==
  ASSUME IInv, NEW c \in Calls, NEW l, at' = [at EXCEPT ![c] = l],
         Kinds' = Kinds, entitled \subseteq entitled', ListInv',
         Call(l, entitled', Kinds),
         rooms' \in [Rooms -> Room],
         \A r \in Rooms : rooms'[r] = rooms[r] \/ GoodRoom(r, rooms'[r], entitled', Kinds),
         part' \in [Ids -> Row \union {NoRow, Gone}],
         \A i \in Ids : part'[i] = part[i] \/ part'[i] = Gone \/ GoodRow(part'[i], entitled', Kinds),
         tokens' \in SUBSET (Rooms \X Users),
         \A r \in Rooms, u \in Users :
           <<r, u>> \in tokens' => <<r, u>> \in tokens \/ Known(r, u, entitled')
  PROVE  IInv'
  <1> USE DEF IInv
  <1>1. RoomsInv'
    BY MoreRoom DEF RoomsInv
  <1>2. PartInv'
    <2>1. ASSUME NEW i \in Ids, Present(i)' PROVE GoodRow(part'[i], entitled', Kinds)
      <3>1. CASE part'[i] = part[i]
        BY <2>1, <3>1, MoreRow DEF PartInv, Present
      <3>2. CASE part'[i] = Gone
        BY <2>1, <3>2 DEF Gone, NoRow, Present
      <3>3. QED
        BY <3>1, <3>2
    <2>2. QED
      BY <2>1 DEF PartInv
  <1>3. CallsInv'
    BY MoreCall DEF CallsInv, Call
  <1>4. TokensInv'
    BY MoreKnown DEF TokensInv
  <1>5. QED
    BY <1>1, <1>2, <1>3, <1>4

\* One call goes on, or starts; what it holds then is good.
Moves(c) == /\ started' \in Nat
            /\ \E l : at' = [at EXCEPT ![c] = l] /\ Call(l, entitled, Kinds)

LEMMA KeepsCall ==
  ASSUME IInv, NEW c \in Calls, Moves(c), UNCHANGED <<rooms, part, tokens, entitled>>
  PROVE  IInv'
  <1>1. PICK l : at' = [at EXCEPT ![c] = l] /\ Call(l, entitled, Kinds)
    BY DEF Moves
  <1>2. Kinds' = Kinds /\ ListInv'
    BY DEF Kinds, IInv, ListInv, Moves
  <1>3. QED
    BY <1>1, <1>2, Keeps DEF IInv, RoomsInv, PartInv, TokensInv

\* The table of rooms is written.
LEMMA KeepsRooms ==
  ASSUME IInv, NEW c \in Calls, Moves(c), UNCHANGED <<part, tokens, entitled>>,
         NEW r \in Rooms, NEW room, rooms' = [rooms EXCEPT ![r] = room],
         GoodRoom(r, room, entitled, Kinds)
  PROVE  IInv'
  <1>1. PICK l : at' = [at EXCEPT ![c] = l] /\ Call(l, entitled, Kinds)
    BY DEF Moves
  <1>2. room \in Room /\ room.type = rooms[r].type
    BY DEF GoodRoom, Kinds
  <1>3. rooms' \in [Rooms -> Room] /\ Kinds' = Kinds
    BY <1>2 DEF Kinds, IInv, RoomsInv
  <1>4. ListInv'
    BY DEF IInv, ListInv, Moves
  <1>5. QED
    BY <1>1, <1>3, <1>4, Keeps DEF IInv, RoomsInv, PartInv, TokensInv

\* A participant's row is written.
LEMMA KeepsPart ==
  ASSUME IInv, NEW c \in Calls, Moves(c), UNCHANGED <<rooms, tokens>>,
         entitled \subseteq entitled', entitled' \in SUBSET (Rooms \X Users \X Reasons),
         NEW i \in Ids, NEW row, part' = [part EXCEPT ![i] = row],
         row = Gone \/ GoodRow(row, entitled', Kinds)
  PROVE  IInv'
  <1>1. PICK l : at' = [at EXCEPT ![c] = l] /\ Call(l, entitled', Kinds)
    BY MoreCall DEF Moves
  <1>2. Kinds' = Kinds /\ ListInv'
    BY DEF Kinds, IInv, ListInv, Moves
  <1>3. part' \in [Ids -> Row \union {NoRow, Gone}]
    BY DEF GoodRow, IInv, PartInv
  <1>4. \A k \in Ids : part'[k] = part[k] \/ part'[k] = Gone \/ GoodRow(part'[k], entitled', Kinds)
    BY DEF IInv, PartInv
  <1>5. QED
    BY <1>1, <1>2, <1>3, <1>4, Keeps DEF IInv, RoomsInv, TokensInv

\* A call saves a row it has read and changed.
LEMMA KeepsSave ==
  ASSUME IInv, NEW c \in Calls, Moves(c), UNCHANGED <<rooms, tokens, entitled>>,
         NEW i \in Ids, NEW row, Save(i, row), GoodRow(row, entitled, Kinds)
  PROVE  IInv'
  BY KeepsPart DEF Save, IInv, ListInv

-----------------------------------------------------------------------------
(* Locals *)

LEMMA IdleCall == Call(Idle, entitled, Kinds)
  BY DEF Call, Idle, Local, PCs, WithSnap, WithId, WithRow, WithClaim, WithList, Joining,
         WithOther, Promoting

LEMMA GotoCall ==
  ASSUME NEW l, NEW e, NEW t, Call(l, e, t), l.pc # "idle", NEW pc \in PCs \ WithClaim,
         pc \in WithSnap => l.pc \in WithSnap,
         pc \in WithId => l.pc \in WithId,
         pc \in WithRow => l.pc \in WithRow,
         pc \in WithList => l.pc \in WithList,
         pc \in Joining => l.pc \in Joining,
         pc = "join_count" => l.snap.host = l.user,
         pc \in WithOther => l.pc \in WithOther,
         pc \in Promoting => l.pc \in Promoting
  PROVE  Call([l EXCEPT !.pc = pc], e, t)
  BY DEF Call, Local

\* A call's frame, before it is given what it holds.
LEMMA FrameFields ==
  ASSUME NEW pc \in PCs, NEW r \in Rooms, NEW u \in Users
  PROVE  /\ Frame(pc, r, u) \in Local
         /\ Frame(pc, r, u).pc = pc /\ Frame(pc, r, u).room = r /\ Frame(pc, r, u).user = u
         /\ Frame(pc, r, u).snap = NoSnap /\ Frame(pc, r, u).list = {}
  BY DEF Frame, Idle, Local

LEMMA Facts ==
  ASSUME IInv
  PROVE  /\ \A c \in Calls : at[c] \in Local /\ Call(at[c], entitled, Kinds)
         /\ \A r \in Rooms : rooms[r] \in Room /\ GoodRoom(r, rooms[r], entitled, Kinds)
         /\ \A i \in Ids : Present(i) => part[i] \in Row /\ GoodRow(part[i], entitled, Kinds)
         /\ \A r \in Rooms, u \in Users : \A i \in RowsOf(r, u) :
              /\ i \in Ids /\ Present(i) /\ part[i].room = r /\ part[i].user = u
              /\ GoodUser(part[i], entitled, Kinds)
  <1>1. /\ \A c \in Calls : at[c] \in Local /\ Call(at[c], entitled, Kinds)
        /\ \A r \in Rooms : rooms[r] \in Room /\ GoodRoom(r, rooms[r], entitled, Kinds)
    BY DEF IInv, CallsInv, RoomsInv
  <1>2. ASSUME NEW i \in Ids, Present(i) PROVE part[i] \in Row /\ GoodRow(part[i], entitled, Kinds)
    BY <1>2 DEF IInv, PartInv, GoodRow
  <1>3. ASSUME NEW r \in Rooms, NEW u \in Users, NEW i \in RowsOf(r, u)
        PROVE  /\ i \in Ids /\ Present(i) /\ part[i].room = r /\ part[i].user = u
               /\ GoodUser(part[i], entitled, Kinds)
    <2>1. i \in Ids /\ Present(i) /\ part[i].room = r /\ part[i].user = u
      BY <1>3 DEF RowsOf
    <2>2. part[i].user # NoUser
      BY <2>1, RoomNames
    <2>3. QED
      BY <1>2, <2>1, <2>2 DEF GoodRow
  <1>4. QED
    BY <1>1, <1>2, <1>3

LEMMA Begins ==
  ASSUME IInv, NEW c \in Calls, NEW l, Begin(c, l), UNCHANGED <<rooms, part, tokens, entitled>>,
         Call(l, entitled, Kinds)
  PROVE  IInv'
  <1>1. started' \in Nat
    BY DEF Begin, IInv, ListInv
  <1>2. Moves(c)
    BY <1>1 DEF Begin, Moves
  <1>3. QED
    BY <1>2, KeepsCall

LEMMA StepMoves ==
  ASSUME IInv, NEW c, NEW l, Step(c, l), Call(l, entitled, Kinds)
  PROVE  Moves(c)
  BY DEF Step, IInv, ListInv, Moves

LEMMA DoneMoves == ASSUME IInv, NEW c, Done(c) PROVE Moves(c)
  BY StepMoves, IdleCall DEF Done

LEMMA GotoMoves ==
  ASSUME IInv, NEW c \in Calls, at[c].pc # "idle", NEW pc \in PCs \ WithClaim, Goto(c, pc),
         pc \in WithSnap => at[c].pc \in WithSnap,
         pc \in WithId => at[c].pc \in WithId,
         pc \in WithRow => at[c].pc \in WithRow,
         pc \in WithList => at[c].pc \in WithList,
         pc \in Joining => at[c].pc \in Joining,
         pc = "join_count" => at[c].snap.host = at[c].user,
         pc \in WithOther => at[c].pc \in WithOther,
         pc \in Promoting => at[c].pc \in Promoting
  PROVE  Moves(c)
  <1>1. CASE pc = "idle"
    BY <1>1, StepMoves, IdleCall DEF Goto
  <1>2. CASE pc # "idle"
    <2>1. Call([at[c] EXCEPT !.pc = pc], entitled, Kinds)
      BY GotoCall, Facts
    <2>2. QED
      BY <1>2, <2>1, StepMoves DEF Goto
  <1>3. QED
    BY <1>1, <1>2

-----------------------------------------------------------------------------
(* The initial states *)

LEMMA InvInit == Init => IInv
  <1> SUFFICES ASSUME Init PROVE IInv
    OBVIOUS
  <1>1. PICK h \in [Rooms -> Users], ty \in [Rooms -> Types], own \in [Rooms -> Ids] :
           Init!(h, ty, own)
    BY DEF Init
  <1>2. \A r \in Rooms : Known(r, h[r], entitled) /\ Asked(r, h[r], entitled)
    BY <1>1 DEF Known, Asked
  <1>3. RoomsInv
    <2>1. rooms \in [Rooms -> Room]
      BY <1>1 DEF Room
    <2>2. ASSUME NEW r \in Rooms PROVE GoodRoom(r, rooms[r], entitled, Kinds)
      <3>1. rooms[r].host = h[r] /\ rooms[r] \in Room
        BY <1>1, <2>1
      <3>2. QED
        BY <1>2, <3>1 DEF GoodRoom, Kinds
    <2>3. QED
      BY <2>1, <2>2 DEF RoomsInv
  <1>4. ASSUME NEW r \in Rooms
        PROVE  /\ NewParticipant(r, h[r], "host", "invited") \in Row
               /\ GoodRow(NewParticipant(r, h[r], "host", "invited"), entitled, Kinds)
    <2> DEFINE row == NewParticipant(r, h[r], "host", "invited")
    <2>1. /\ row.room = r /\ row.user = h[r] /\ row.email = NoUser /\ row.status = "invited"
          /\ row.role = "host" /\ ~row.removed /\ row \in Row
      BY <1>1 DEF NewParticipant, NoRow, Row, Statuses
    <2> HIDE DEF row
    <2>2. GoodRow(row, entitled, Kinds)
      BY <1>2, <2>1, RoomNames DEF GoodRow, GoodUser
    <2>3. QED
      BY <2>1, <2>2 DEF row
  <1>5. ASSUME NEW i \in Ids
        PROVE  part[i] = NoRow \/ \E r \in Rooms : part[i] = NewParticipant(r, h[r], "host", "invited")
    BY <1>1
  <1>6. PartInv
    <2>1. part \in [Ids -> Row \union {NoRow, Gone}]
      BY <1>1, <1>4, <1>5
    <2>2. ASSUME NEW i \in Ids, Present(i) PROVE GoodRow(part[i], entitled, Kinds)
      <3>1. part[i] # NoRow
        BY <2>2 DEF Present, NoRow
      <3>2. QED
        BY <1>4, <1>5, <3>1
    <2>3. QED
      BY <2>1, <2>2 DEF PartInv
  <1>7. CallsInv
    <2>1. Idle \in Local
      BY DEF Idle, Local, PCs
    <2>2. QED
      BY <1>1, <2>1, IdleCall DEF CallsInv
  <1>8. TokensInv /\ ListInv
    BY <1>1, <1>2 DEF TokensInv, ListInv, Reasons
  <1>9. QED
    BY <1>3, <1>6, <1>7, <1>8 DEF IInv

-----------------------------------------------------------------------------
(* What the updates write *)

LEMMA UpdateGood ==
  ASSUME IInv, NEW r \in Rooms, NEW room, GoodRoom(r, room, entitled, Kinds), Update(r, room)
  PROVE  \E x : rooms' = [rooms EXCEPT ![r] = x] /\ GoodRoom(r, x, entitled, Kinds)
  <1> DEFINE x == [rooms[r] EXCEPT !.status = room.status, !.host = room.host,
                                   !.count = IF room.count = 0 THEN @ ELSE room.count]
  <1>1. rooms[r] \in Room /\ rooms[r].type = Kinds[r] /\ room \in Room
    BY Facts DEF GoodRoom
  <1>2. x \in Room /\ x.type = rooms[r].type /\ x.host = room.host
    BY <1>1 DEF Room
  <1>3. rooms' = [rooms EXCEPT ![r] = x]
    BY DEF Update
  <1> HIDE DEF x
  <1>4. GoodRoom(r, x, entitled, Kinds)
    BY <1>1, <1>2 DEF GoodRoom
  <1>5. QED
    BY <1>3, <1>4

LEMMA CountGood ==
  ASSUME NEW r, NEW room, NEW e, NEW t, GoodRoom(r, room, e, t), NEW n \in Nat
  PROVE  GoodRoom(r, [room EXCEPT !.count = n], e, t)
  <1> DEFINE x == [room EXCEPT !.count = n]
  <1>1. x \in Room /\ x.type = room.type /\ x.host = room.host
    BY DEF Room, GoodRoom
  <1> HIDE DEF x
  <1>2. GoodRoom(r, x, e, t)
    BY <1>1 DEF GoodRoom
  <1>3. QED
    BY <1>2 DEF x

LEMMA StatusGood ==
  ASSUME NEW r, NEW room, NEW e, NEW t, GoodRoom(r, room, e, t),
         NEW s \in {"scheduled", "active", "ended"}
  PROVE  GoodRoom(r, [room EXCEPT !.status = s], e, t)
  <1> DEFINE x == [room EXCEPT !.status = s]
  <1>1. x \in Room /\ x.type = room.type /\ x.host = room.host
    BY DEF Room, GoodRoom
  <1> HIDE DEF x
  <1>2. GoodRoom(r, x, e, t)
    BY <1>1 DEF GoodRoom
  <1>3. QED
    BY <1>2 DEF x

\* A copy that has got another status, and may have been removed.
LEMMA RowGood ==
  ASSUME NEW row, NEW e, NEW t, GoodRow(row, e, t), NEW x \in Row,
         x.room = row.room, x.user = row.user, x.email = row.email,
         x.status \in {"invited", "waiting", "declined"} => ~x.removed,
         x.status = "invited" /\ x.user = NoUser => x.role = "participant",
         x.status = "joined" /\ x.user # NoUser => Known(x.room, x.user, e),
         x.role = "host" /\ x.user # NoUser => Known(x.room, x.user, e)
  PROVE  GoodRow(x, e, t)
  BY DEF GoodRow, GoodUser

LEMMA RoleGood ==
  ASSUME NEW row, NEW e, NEW t, GoodRow(row, e, t)
  PROVE  row.role = "host" /\ row.user # NoUser => Known(row.room, row.user, e)
  BY DEF GoodRow, GoodUser

LEMMA LeftGood ==
  ASSUME NEW row, NEW e, NEW t, GoodRow(row, e, t)
  PROVE  GoodRow(LeftRow(row), e, t)
  <1> DEFINE x == LeftRow(row)
  <1>1. /\ x \in Row /\ x.room = row.room /\ x.user = row.user /\ x.email = row.email
        /\ x.status = "left" /\ x.role = row.role
    BY DEF LeftRow, GoodRow, Row, Statuses
  <1> HIDE DEF x
  <1>2. GoodRow(x, e, t)
    BY <1>1, RowGood, RoleGood
  <1>3. QED
    BY <1>2 DEF x

-----------------------------------------------------------------------------
(* Starting a room, and the saves at the end of a call *)

LEMMA StartRoomInv ==
  ASSUME IInv, NEW c \in Calls, NEW u \in Users, NEW r \in Rooms, StartRoom(c, u, r)
  PROVE  IInv'
  <1> DEFINE s == [rooms[r] EXCEPT !.status = "active"]
             l == [Frame("save_room", r, u) EXCEPT !.snap = s]
  <1>1. GoodRoom(r, s, entitled, Kinds)
    BY Facts, StatusGood
  <1>2. /\ l \in Local /\ l.pc = "save_room" /\ l.room = r /\ l.user = u /\ l.snap = s
    BY <1>1, FrameFields DEF GoodRoom, Local, PCs
  <1> HIDE DEF l
  <1>3. Call(l, entitled, Kinds)
    BY <1>1, <1>2 DEF Call, WithSnap, WithId, WithRow, WithClaim, WithList, Joining,
                      WithOther, Promoting
  <1>4. QED
    BY <1>3, Begins DEF StartRoom, l

LEMMA SaveRoomInv ==
  ASSUME IInv, NEW c \in Calls, SaveRoom(c)
  PROVE  IInv'
  <1>1. at[c].room \in Rooms /\ GoodRoom(at[c].room, at[c].snap, entitled, Kinds)
    BY Facts DEF SaveRoom, Call, WithSnap
  <1>2. Moves(c)
    BY DoneMoves DEF SaveRoom
  <1>3. PICK x : /\ rooms' = [rooms EXCEPT ![at[c].room] = x]
                 /\ GoodRoom(at[c].room, x, entitled, Kinds)
    BY <1>1, UpdateGood DEF SaveRoom
  <1>4. QED
    BY <1>1, <1>2, <1>3, KeepsRooms DEF SaveRoom

LEMMA SaveParticipantInv ==
  ASSUME IInv, NEW c \in Calls, SaveParticipant(c)
  PROVE  IInv'
  <1>1. at[c].pc \in WithRow
    BY DEF SaveParticipant, WithRow
  <1>2. at[c].id \in Ids /\ GoodRow(at[c].row, entitled, Kinds)
    BY <1>1, Facts DEF Call, WithId
  <1>3. Moves(c)
    <2>1. AfterSave(at[c]) \in {"join_count", "idle", "leave_count", "leave_check", "promote_room",
                                "transfer_promote"}
      BY <1>1 DEF WithRow, AfterSave, AfterJoin
    <2>2. AfterSave(at[c]) = "join_count" => at[c].snap.host = at[c].user /\ at[c].pc = "join_save"
      BY <1>1 DEF WithRow, AfterSave, AfterJoin
    <2>3. AfterSave(at[c]) = "transfer_promote" => at[c].pc = "transfer_demote"
      BY <1>1 DEF WithRow, AfterSave, AfterJoin
    <2>4. QED
      BY <1>1, <2>1, <2>2, <2>3, GotoMoves
         DEF SaveParticipant, PCs, WithSnap, WithId, WithRow, WithClaim, WithList, Joining,
             WithOther, Promoting
  <1>4. QED
    BY <1>2, <1>3, KeepsSave DEF SaveParticipant

-----------------------------------------------------------------------------
(* Joining *)

LEMMA JoinRoomInv ==
  ASSUME IInv, NEW c \in Calls, NEW u \in Users, NEW r \in Rooms, JoinRoom(c, u, r)
  PROVE  IInv'
  <1> DEFINE pc == IF OpenTo(rooms[r], u) THEN "join_row" ELSE "join_auth"
             l == [Frame(pc, r, u) EXCEPT !.snap = rooms[r]]
  <1>1. rooms[r] \in Room /\ GoodRoom(r, rooms[r], entitled, Kinds)
    BY Facts
  <1>2. pc = "join_row" => (Kinds[r] # "public" => Asked(r, u, entitled))
    BY <1>1 DEF OpenTo, GoodRoom
  <1>3. pc \in {"join_row", "join_auth"}
    OBVIOUS
  <1> HIDE DEF pc
  <1>4. l \in Local /\ l.pc = pc /\ l.room = r /\ l.user = u /\ l.snap = rooms[r]
    BY <1>1, <1>3, FrameFields DEF Local, PCs
  <1> HIDE DEF l
  <1>5. Call(l, entitled, Kinds)
    BY <1>1, <1>2, <1>3, <1>4 DEF Call, WithSnap, WithId, WithRow, WithClaim, WithList, Joining,
                                  WithOther, Promoting
  <1>6. QED
    BY <1>5, Begins DEF JoinRoom, l, pc

LEMMA CheckInvitedInv ==
  ASSUME IInv, NEW c \in Calls, CheckInvited(c)
  PROVE  IInv'
  <1> DEFINE l == [at[c] EXCEPT !.pc = "join_row"]
  <1>1. at[c] \in Local /\ at[c].pc = "join_auth" /\ Call(at[c], entitled, Kinds)
        /\ at[c].room \in Rooms /\ at[c].user \in Users
    BY Facts DEF CheckInvited, Call
  <1>2. Kinds[at[c].room] # "public" => Asked(at[c].room, at[c].user, entitled)
    BY <1>1, Facts DEF CheckInvited, GoodUser
  <1>3. l \in Local /\ l.pc = "join_row" /\ l.room = at[c].room /\ l.user = at[c].user
        /\ l.snap = at[c].snap
    BY <1>1 DEF Local, PCs
  <1> HIDE DEF l
  <1>4. Call(l, entitled, Kinds)
    BY <1>1, <1>2, <1>3 DEF Call, WithSnap, WithId, WithRow, WithClaim, WithList, Joining,
                            WithOther, Promoting
  <1>5. Step(c, l) /\ UNCHANGED <<rooms, part, tokens, entitled>>
    BY DEF CheckInvited, Goto, l
  <1>6. QED
    BY <1>4, <1>5, StepMoves, KeepsCall

LEMMA FindParticipantInv ==
  ASSUME IInv, NEW c \in Calls, FindParticipant(c)
  PROVE  IInv'
  <1>1. /\ at[c] \in Local /\ at[c].pc = "join_row" /\ Call(at[c], entitled, Kinds)
        /\ at[c].room \in Rooms /\ at[c].user \in Users
        /\ GoodRoom(at[c].room, at[c].snap, entitled, Kinds)
    BY Facts DEF FindParticipant, Call, WithSnap
  <1>2. CASE Goto(c, "join_create")
    <2>1. Moves(c)
      BY <1>1, <1>2, GotoMoves DEF PCs, WithSnap, WithId, WithRow, WithClaim, WithList, Joining,
                                   WithOther, Promoting
    <2>2. QED
      BY <2>1, KeepsCall DEF FindParticipant
  <1>3. ASSUME NEW i \in RowsOf(at[c].room, at[c].user), MayRejoin(part[i]),
               Step(c, [at[c] EXCEPT !.pc = "join_save", !.id = i,
                          !.row = [part[i] EXCEPT !.status = JoinStatus(at[c].snap, at[c].user)]])
        PROVE  IInv'
    <2> DEFINE row == [part[i] EXCEPT !.status = JoinStatus(at[c].snap, at[c].user)]
               l == [at[c] EXCEPT !.pc = "join_save", !.id = i, !.row = row]
    <2>1. /\ i \in Ids /\ part[i] \in Row /\ GoodRow(part[i], entitled, Kinds)
          /\ part[i].room = at[c].room /\ part[i].user = at[c].user
      BY <1>1, Facts
    <2>2. JoinStatus(at[c].snap, at[c].user) \in {"joined", "waiting"}
          /\ (JoinStatus(at[c].snap, at[c].user) = "joined" => at[c].snap.host = at[c].user)
      BY DEF JoinStatus
    <2>3. /\ row \in Row /\ row.room = part[i].room /\ row.user = part[i].user
          /\ row.email = part[i].email /\ row.role = part[i].role
          /\ row.removed = part[i].removed
          /\ row.status = JoinStatus(at[c].snap, at[c].user)
      BY <2>1, <2>2 DEF Row, Statuses
    <2>4. ~row.removed
      BY <1>3, <2>3 DEF MayRejoin
    <2>5. l \in Local /\ l.pc = "join_save" /\ l.room = at[c].room /\ l.user = at[c].user
          /\ l.snap = at[c].snap /\ l.id = i /\ l.row = row
      BY <1>1, <2>1, <2>3 DEF Local, PCs
    <2> HIDE DEF row, l
    <2>6. GoodRow(row, entitled, Kinds)
      <3>1. row.status = "joined" => Known(row.room, row.user, entitled)
        BY <1>1, <2>1, <2>2, <2>3 DEF GoodRoom
      <3>2. QED
        BY <2>1, <2>2, <2>3, <2>4, <3>1, RowGood, RoleGood
    <2>7. Call(l, entitled, Kinds)
      BY <1>1, <2>1, <2>5, <2>6 DEF Call, WithSnap, WithId, WithRow, WithClaim, WithList, Joining,
                                    WithOther, Promoting
    <2>8. QED
      BY <1>3, <2>7, StepMoves, KeepsCall DEF FindParticipant, row, l
  <1>4. QED
    BY <1>2, <1>3 DEF FindParticipant

LEMMA CreateParticipantInv ==
  ASSUME IInv, NEW c \in Calls, CreateParticipant(c)
  PROVE  IInv'
  <1>1. /\ at[c] \in Local /\ at[c].pc = "join_create" /\ Call(at[c], entitled, Kinds)
        /\ at[c].room \in Rooms /\ at[c].user \in Users
        /\ GoodRoom(at[c].room, at[c].snap, entitled, Kinds)
        /\ (Kinds[at[c].room] # "public" => Asked(at[c].room, at[c].user, entitled))
    BY Facts DEF CreateParticipant, Call, WithSnap, Joining
  <1> DEFINE host == at[c].snap.host = at[c].user
             row == NewParticipant(at[c].room, at[c].user,
                                   IF host THEN "host" ELSE "participant",
                                   JoinStatus(at[c].snap, at[c].user))
  <1>2. /\ row \in Row /\ row.room = at[c].room /\ row.user = at[c].user /\ row.email = NoUser
        /\ row.role = (IF host THEN "host" ELSE "participant") /\ ~row.removed
        /\ row.status = IF host THEN "joined" ELSE "waiting"
    BY <1>1 DEF NewParticipant, NoRow, Row, Statuses, JoinStatus
  <1>3. PICK i \in Ids : Save(i, row)
    BY DEF CreateParticipant, Insert
  <1> HIDE DEF row
  <1>4. GoodRow(row, entitled, Kinds)
    <2>1. GoodUser(row, entitled, Kinds)
      BY <1>1, <1>2 DEF GoodUser, GoodRoom
    <2>2. QED
      BY <1>1, <1>2, <2>1, RoomNames DEF GoodRow
  <1>5. Moves(c)
    BY <1>1, GotoMoves DEF CreateParticipant, AfterJoin, PCs, WithSnap, WithId, WithRow, WithClaim,
                           WithList, Joining, WithOther, Promoting
  <1>6. QED
    BY <1>3, <1>4, <1>5, KeepsSave DEF CreateParticipant

LEMMA CountHostInv ==
  ASSUME IInv, NEW c \in Calls, CountHost(c)
  PROVE  IInv'
  <1>1. /\ at[c] \in Local /\ at[c].pc = "join_count" /\ Call(at[c], entitled, Kinds)
        /\ at[c].room \in Rooms /\ at[c].user \in Users /\ at[c].snap.host = at[c].user
        /\ GoodRoom(at[c].room, at[c].snap, entitled, Kinds)
    BY Facts DEF CountHost, Call, WithSnap
  <1>2. Moves(c)
    <2>1. CASE Done(c)
      BY <2>1, DoneMoves
    <2>2. CASE Step(c, [at[c] EXCEPT !.pc = "save_room", !.snap.status = "active"])
      <3> DEFINE s == [at[c].snap EXCEPT !.status = "active"]
                 l == [at[c] EXCEPT !.pc = "save_room", !.snap.status = "active"]
      <3>1. GoodRoom(at[c].room, s, entitled, Kinds)
        BY <1>1, StatusGood
      <3>2. l \in Local /\ l.pc = "save_room" /\ l.room = at[c].room /\ l.user = at[c].user
            /\ l.snap = s
        BY <1>1, <3>1 DEF Local, PCs, GoodRoom
      <3> HIDE DEF s, l
      <3>3. Call(l, entitled, Kinds)
        BY <1>1, <3>1, <3>2 DEF Call, WithSnap, WithId, WithRow, WithClaim, WithList, Joining,
                                WithOther, Promoting
      <3>4. QED
        BY <2>2, <3>3, StepMoves DEF l
    <2>3. QED
      BY <2>1, <2>2 DEF CountHost
  <1>3. rooms[at[c].room].count + 1 \in Nat
    BY <1>1, Facts DEF Room
  <1> DEFINE x == [rooms[at[c].room] EXCEPT !.count = rooms[at[c].room].count + 1]
  <1>4. GoodRoom(at[c].room, x, entitled, Kinds) /\ rooms' = [rooms EXCEPT ![at[c].room] = x]
    BY <1>1, <1>3, Facts, CountGood DEF CountHost, AddCount
  <1> HIDE DEF x
  <1>5. Known(at[c].room, at[c].user, entitled)
    BY <1>1 DEF GoodRoom
  <1>6. x \in Room /\ x.type = rooms[at[c].room].type
    BY <1>1, <1>4 DEF GoodRoom, Kinds
  <1>7. rooms' \in [Rooms -> Room] /\ Kinds' = Kinds
    BY <1>1, <1>4, <1>6 DEF Kinds, IInv, RoomsInv
  <1>8. PICK l : at' = [at EXCEPT ![c] = l] /\ Call(l, entitled, Kinds)
    BY <1>2 DEF Moves
  <1>9. /\ tokens' \in SUBSET (Rooms \X Users)
        /\ \A r \in Rooms, u \in Users :
             <<r, u>> \in tokens' => <<r, u>> \in tokens \/ Known(r, u, entitled)
    BY <1>1, <1>5 DEF CountHost, IInv, TokensInv
  <1>10. ListInv' /\ entitled' = entitled /\ part' = part
    BY <1>2 DEF Moves, CountHost, IInv, ListInv
  <1>11. QED
    BY <1>1, <1>4, <1>7, <1>8, <1>9, <1>10, Keeps DEF IInv, PartInv

-----------------------------------------------------------------------------
(* Leaving *)

LEMMA LeaveRoomInv ==
  ASSUME IInv, NEW c \in Calls, NEW u \in Users, NEW r \in Rooms, LeaveRoom(c, u, r)
  PROVE  IInv'
  <1>1. PICK i \in RowsOf(r, u) :
           Begin(c, [Frame("leave_save", r, u) EXCEPT
                       !.id = i, !.row = LeftRow(part[i]), !.was = part[i].status = "joined"])
    BY DEF LeaveRoom
  <1>2. PICK w \in BOOLEAN : w <=> part[i].status = "joined"
    OBVIOUS
  <1> DEFINE x == LeftRow(part[i])
             f == Frame("leave_save", r, u)
             l == [f EXCEPT !.id = i, !.row = x, !.was = w]
  <1>3. Begin(c, l)
    BY <1>1, <1>2
  <1>4. i \in Ids /\ GoodRow(x, entitled, Kinds)
    BY Facts, LeftGood
  <1>5. f \in Local /\ f.pc = "leave_save" /\ f.room = r /\ f.user = u
    BY FrameFields DEF PCs
  <1> HIDE DEF x, f
  <1>6. /\ l \in Local /\ l.pc = "leave_save" /\ l.room = r /\ l.user = u /\ l.id = i
        /\ l.row = x
    BY <1>4, <1>5 DEF GoodRow, Local
  <1> HIDE DEF l
  <1>7. Call(l, entitled, Kinds)
    BY <1>4, <1>6 DEF Call, WithSnap, WithId, WithRow, WithClaim, WithList, Joining, WithOther,
                      Promoting
  <1>8. QED
    BY <1>3, <1>7, Begins DEF LeaveRoom

LEMMA SubCountGood ==
  ASSUME IInv, NEW c \in Calls, Moves(c), UNCHANGED <<part, tokens, entitled>>,
         at[c].room \in Rooms, AddCount(at[c].room) \/ SubCount(at[c].room)
  PROVE  IInv'
  <1> DEFINE r == at[c].room
  <1>1. PICK n \in Nat : rooms' = [rooms EXCEPT ![r] = [rooms[r] EXCEPT !.count = n]]
    <2>1. rooms[r].count \in Nat
      BY Facts DEF Room
    <2>2. Fewer(rooms[r].count) \in Nat /\ rooms[r].count + 1 \in Nat
      BY <2>1 DEF Fewer
    <2>3. QED
      BY <2>2 DEF AddCount, SubCount
  <1>2. QED
    <2> DEFINE x == [rooms[r] EXCEPT !.count = n]
    <2>1. GoodRoom(r, rooms[r], entitled, Kinds)
      BY Facts
    <2>2. GoodRoom(r, x, entitled, Kinds)
      BY <2>1, CountGood
    <2>3. QED
      BY <1>1, <2>2, KeepsRooms

LEMMA LeavingInv ==
  ASSUME IInv, NEW c \in Calls, LeaveCount(c) \/ CountActive(c) \/ AutoEnd(c)
  PROVE  IInv'
  <1>1. at[c].pc \in {"leave_count", "leave_check", "leave_end"} /\ at[c].room \in Rooms
    BY Facts DEF Call, LeaveCount, CountActive, AutoEnd
  <1>2. CASE LeaveCount(c)
    <2>1. Moves(c)
      BY <1>1, <1>2, GotoMoves DEF LeaveCount, PCs, WithSnap, WithId, WithRow, WithClaim,
                                   WithList, Joining, WithOther, Promoting
    <2>2. QED
      BY <1>1, <1>2, <2>1, SubCountGood DEF LeaveCount
  <1>3. CASE CountActive(c)
    <2>1. PICK pc \in {"leave_end", "promote_row", "idle"} : Goto(c, pc)
      BY <1>3 DEF CountActive
    <2>2. Moves(c)
      BY <1>1, <2>1, GotoMoves DEF PCs, WithSnap, WithId, WithRow, WithClaim,
                                   WithList, Joining, WithOther, Promoting
    <2>3. QED
      BY <1>3, <2>2, KeepsCall DEF CountActive
  <1>4. CASE AutoEnd(c)
    <2> DEFINE r == at[c].room
               x == [rooms[r] EXCEPT !.status = "ended"]
    <2>1. r \in Rooms /\ GoodRoom(r, rooms[r], entitled, Kinds)
      BY <1>1, Facts
    <2>2. GoodRoom(r, x, entitled, Kinds)
      BY <2>1, StatusGood
    <2>3. Moves(c) /\ UNCHANGED <<part, tokens, entitled>> /\ rooms' = [rooms EXCEPT ![r] = x]
      BY <1>4, DoneMoves DEF AutoEnd
    <2>4. QED
      BY <2>1, <2>2, <2>3, KeepsRooms
  <1>5. QED
    BY <1>2, <1>3, <1>4

\* A call that is about to save a row, as most of them end.
LEMMA HeldRow ==
  ASSUME NEW l \in Local, l.room \in Rooms, l.user \in Users, l.id \in Ids,
         l.pc \in {"promote_save", "block_save", "connect_save", "decline_save"},
         GoodRow(l.row, entitled, Kinds)
  PROVE  Call(l, entitled, Kinds)
  BY DEF Call, WithSnap, WithId, WithRow, WithClaim, WithList, Joining, WithOther, Promoting

LEMMA FindNewHostInv ==
  ASSUME IInv, NEW c \in Calls, FindNewHost(c)
  PROVE  IInv'
  <1>1. /\ at[c] \in Local /\ at[c].pc = "promote_row"
        /\ at[c].room \in Rooms /\ at[c].user \in Users
    BY Facts DEF FindNewHost, Call
  <1>2. PICK i \in Active(at[c].room) :
           Step(c, [at[c] EXCEPT !.pc = "promote_save", !.id = i,
                                 !.row = [part[i] EXCEPT !.role = "host"]])
    BY DEF FindNewHost
  <1> DEFINE x == [part[i] EXCEPT !.role = "host"]
             l == [at[c] EXCEPT !.pc = "promote_save", !.id = i, !.row = x]
  <1>3. /\ i \in Ids /\ part[i].status = "joined"
        /\ part[i] \in Row /\ GoodRow(part[i], entitled, Kinds)
    BY Facts DEF Active, Present
  <1>4. /\ x \in Row /\ x.room = part[i].room /\ x.user = part[i].user
        /\ x.email = part[i].email /\ x.status = "joined"
    BY <1>3 DEF Row
  <1> HIDE DEF x
  <1>5. x.user # NoUser => Known(x.room, x.user, entitled)
    BY <1>3, <1>4 DEF GoodRow, GoodUser
  <1>6. GoodRow(x, entitled, Kinds)
    BY <1>3, <1>4, <1>5, RowGood
  <1>7. /\ l \in Local /\ l.pc = "promote_save" /\ l.room = at[c].room /\ l.user = at[c].user
        /\ l.id = i /\ l.row = x
    BY <1>1, <1>3, <1>4 DEF Local, PCs
  <1>8. Step(c, l)
    BY <1>2 DEF x
  <1> HIDE DEF l
  <1>9. Call(l, entitled, Kinds)
    BY <1>1, <1>3, <1>6, <1>7, HeldRow
  <1>10. QED
    BY <1>8, <1>9, StepMoves, KeepsCall DEF FindNewHost

LEMMA PromoteInRoomInv ==
  ASSUME IInv, NEW c \in Calls, PromoteInRoom(c)
  PROVE  IInv'
  <1>1. /\ at[c] \in Local /\ at[c].pc = "promote_room"
        /\ at[c].room \in Rooms /\ at[c].user \in Users
    BY Facts DEF PromoteInRoom, Call
  <1> DEFINE s == rooms[at[c].room]
             l == [at[c] EXCEPT !.pc = "save_room", !.snap = s]
  <1>2. s \in Room /\ GoodRoom(at[c].room, s, entitled, Kinds)
    BY <1>1, Facts
  <1>3. Step(c, l)
    BY DEF PromoteInRoom
  <1> HIDE DEF s
  <1>4. /\ l \in Local /\ l.pc = "save_room" /\ l.room = at[c].room /\ l.user = at[c].user
        /\ l.snap = s
    BY <1>1, <1>2 DEF Local, PCs
  <1> HIDE DEF l
  <1>5. Call(l, entitled, Kinds)
    BY <1>1, <1>2, <1>4 DEF Call, WithSnap, WithId, WithRow, WithClaim, WithList, Joining,
                            WithOther, Promoting
  <1>6. QED
    BY <1>3, <1>5, StepMoves, KeepsCall DEF PromoteInRoom

-----------------------------------------------------------------------------
(* Ending a room *)

LEMMA EndRoomInv ==
  ASSUME IInv, NEW c \in Calls, NEW u \in Users, NEW r \in Rooms, EndRoom(c, u, r)
  PROVE  IInv'
  <1> DEFINE s == [rooms[r] EXCEPT !.status = "ended"]
             f == Frame("end_list", r, u)
             l == [f EXCEPT !.snap = s]
  <1>1. GoodRoom(r, s, entitled, Kinds)
    BY Facts, StatusGood
  <1>2. f \in Local /\ f.pc = "end_list" /\ f.room = r /\ f.user = u
    BY FrameFields DEF PCs
  <1>3. Begin(c, l) /\ UNCHANGED <<rooms, part, tokens, entitled>>
    BY DEF EndRoom
  <1> HIDE DEF s, f
  <1>4. /\ l \in Local /\ l.pc = "end_list" /\ l.room = r /\ l.user = u /\ l.snap = s
    BY <1>1, <1>2 DEF GoodRoom, Local
  <1> HIDE DEF l
  <1>5. Call(l, entitled, Kinds)
    BY <1>1, <1>4 DEF Call, WithSnap, WithId, WithRow, WithClaim, WithList, Joining,
                      WithOther, Promoting
  <1>6. QED
    BY <1>3, <1>5, Begins

LEMMA ListActiveInv ==
  ASSUME IInv, NEW c \in Calls, ListActive(c)
  PROVE  IInv'
  <1>1. /\ at[c] \in Local /\ at[c].pc = "end_list"
        /\ at[c].room \in Rooms /\ at[c].user \in Users
        /\ GoodRoom(at[c].room, at[c].snap, entitled, Kinds)
    BY Facts DEF ListActive, Call, WithSnap
  <1> DEFINE s == {[id |-> i, row |-> LeftRow(part[i])] : i \in Active(at[c].room)}
             l == [at[c] EXCEPT !.pc = "end_room", !.list = s]
  <1>2. ASSUME NEW i \in Active(at[c].room)
        PROVE  i \in Ids /\ GoodRow(LeftRow(part[i]), entitled, Kinds)
    <2>1. i \in Ids /\ Present(i)
      BY DEF Active, Present
    <2>2. QED
      BY <2>1, Facts, LeftGood
  <1>3. s \in SUBSET Copy /\ \A x \in s : GoodRow(x.row, entitled, Kinds)
    BY <1>2 DEF GoodRow, Copy
  <1>4. Step(c, l)
    BY DEF ListActive
  <1> HIDE DEF s
  <1>5. /\ l \in Local /\ l.pc = "end_room" /\ l.room = at[c].room /\ l.user = at[c].user
        /\ l.snap = at[c].snap /\ l.list = s
    BY <1>1, <1>3 DEF Local, PCs
  <1> HIDE DEF l
  <1>6. Call(l, entitled, Kinds)
    BY <1>1, <1>3, <1>5 DEF Call, WithSnap, WithId, WithRow, WithClaim, WithList, Joining,
                            WithOther, Promoting
  <1>7. QED
    BY <1>4, <1>6, StepMoves, KeepsCall DEF ListActive

LEMMA SaveEndedInv ==
  ASSUME IInv, NEW c \in Calls, SaveEnded(c)
  PROVE  IInv'
  <1>1. /\ at[c].pc = "end_room" /\ at[c].room \in Rooms
        /\ GoodRoom(at[c].room, at[c].snap, entitled, Kinds)
    BY Facts DEF SaveEnded, Call, WithSnap
  <1>2. PICK pc \in {"idle", "end_rows"} : Goto(c, pc)
    BY DEF SaveEnded
  <1>3. Moves(c)
    BY <1>1, <1>2, GotoMoves DEF PCs, WithSnap, WithId, WithRow, WithClaim, WithList, Joining,
                                 WithOther, Promoting
  <1>4. PICK x : /\ rooms' = [rooms EXCEPT ![at[c].room] = x]
                 /\ GoodRoom(at[c].room, x, entitled, Kinds)
    BY <1>1, UpdateGood DEF SaveEnded
  <1>5. QED
    BY <1>1, <1>3, <1>4, KeepsRooms DEF SaveEnded

LEMMA MarkLeftInv ==
  ASSUME IInv, NEW c \in Calls, MarkLeft(c)
  PROVE  IInv'
  <1>1. /\ at[c] \in Local /\ at[c].pc = "end_rows"
        /\ at[c].room \in Rooms /\ at[c].user \in Users /\ at[c].list \in SUBSET Copy
        /\ \A x \in at[c].list : GoodRow(x.row, entitled, Kinds)
    BY Facts DEF MarkLeft, Call, WithList, Local
  <1>2. PICK x \in at[c].list :
           /\ Save(x.id, x.row)
           /\ Done(c) \/ Step(c, [at[c] EXCEPT !.list = @ \ {x}])
    BY DEF MarkLeft
  <1> DEFINE s == at[c].list \ {x}
             l == [at[c] EXCEPT !.list = s]
  <1>3. s \in SUBSET Copy /\ \A y \in s : GoodRow(y.row, entitled, Kinds)
    BY <1>1
  <1> HIDE DEF s
  <1>4. /\ l \in Local /\ l.pc = "end_rows" /\ l.room = at[c].room /\ l.user = at[c].user
        /\ l.list = s
    BY <1>1, <1>3 DEF Local
  <1> HIDE DEF l
  <1>5. Call(l, entitled, Kinds)
    BY <1>1, <1>3, <1>4 DEF Call, WithSnap, WithId, WithRow, WithClaim, WithList, Joining,
                            WithOther, Promoting
  <1>6. Moves(c)
    BY <1>2, <1>5, DoneMoves, StepMoves DEF l, s
  <1>7. x.id \in Ids /\ GoodRow(x.row, entitled, Kinds)
    BY <1>1 DEF Copy
  <1>8. QED
    BY <1>2, <1>6, <1>7, KeepsSave DEF MarkLeft

-----------------------------------------------------------------------------
(* The host's operations *)

LEMMA HostCallInv ==
  ASSUME IInv, NEW c \in Calls, NEW u \in Users, NEW r \in Rooms, NEW i \in Ids,
         NEW pc \in {"admit_row", "deny_row", "block_row", "remove_row"},
         HostCall(c, u, r, i, pc)
  PROVE  IInv'
  <1> DEFINE s == rooms[r]
             f == Frame(pc, r, u)
             l == [f EXCEPT !.id = i, !.snap = s]
  <1>1. f \in Local /\ f.pc = pc /\ f.room = r /\ f.user = u /\ s \in Room
    BY Facts, FrameFields DEF PCs
  <1>2. Begin(c, l) /\ UNCHANGED <<rooms, part, tokens, entitled>>
    BY DEF HostCall
  <1> HIDE DEF s, f
  <1>3. l \in Local /\ l.pc = pc /\ l.room = r /\ l.user = u /\ l.id = i
    BY <1>1 DEF Local
  <1> HIDE DEF l
  <1>4. Call(l, entitled, Kinds)
    BY <1>3 DEF Call, WithSnap, WithId, WithRow, WithClaim, WithList, Joining, WithOther,
                Promoting
  <1>5. QED
    BY <1>2, <1>4, Begins

LEMMA FindWaitingInv ==
  ASSUME IInv, NEW c \in Calls, FindWaiting(c)
  PROVE  IInv'
  <1>1. PICK pc \in {"admit_mark", "deny_delete"} : Goto(c, pc)
    BY DEF FindWaiting
  <1>2. at[c].pc \in {"admit_row", "deny_row"}
    BY DEF FindWaiting
  <1>3. Moves(c)
    BY <1>1, <1>2, GotoMoves DEF PCs, WithSnap, WithId, WithRow, WithClaim, WithList, Joining,
                                 WithOther, Promoting
  <1>4. QED
    BY <1>3, KeepsCall DEF FindWaiting

\* Whoever is admitted is entitled from then on.
LEMMA MarkAsJoinedInv ==
  ASSUME IInv, NEW c \in Calls, MarkAsJoined(c)
  PROVE  IInv'
  <1> DEFINE i == at[c].id
             x == [part[i] EXCEPT !.status = "joined"]
  <1>1. at[c].pc = "admit_mark" /\ i \in Ids
    BY Facts DEF MarkAsJoined, Call, WithId
  <1>2. Moves(c)
    BY <1>1, GotoMoves DEF MarkAsJoined, PCs, WithSnap, WithId, WithRow, WithClaim, WithList,
                           Joining, WithOther, Promoting
  <1>3. CASE ~Present(i)
    BY <1>2, <1>3, KeepsCall DEF MarkAsJoined
  <1>4. CASE Present(i)
    <2>1. part[i] \in Row /\ GoodRow(part[i], entitled, Kinds)
      BY <1>1, <1>4, Facts
    <2>2. /\ part' = [part EXCEPT ![i] = x]
          /\ entitled' = entitled \union
                           ({part[i].room} \X ({part[i].user} \ {NoUser}) \X {Admission(c, i)})
          /\ UNCHANGED <<rooms, tokens>>
      BY <1>4 DEF MarkAsJoined
    <2>3. /\ x \in Row /\ x.room = part[i].room /\ x.user = part[i].user
          /\ x.email = part[i].email /\ x.status = "joined" /\ x.role = part[i].role
      BY <2>1 DEF Row, Statuses
    <2>4. part[i].room \in Rooms /\ part[i].user \in Users \union {NoUser}
      BY <2>1 DEF Row
    <2>0. Admission(c, i) \in {"admitted", "elsewhere"}
      BY DEF Admission
    <2>5. entitled \subseteq entitled' /\ entitled' \in SUBSET (Rooms \X Users \X Reasons)
      BY <2>0, <2>2, <2>4 DEF IInv, ListInv, Reasons
    <2>6. part[i].user # NoUser => Known(part[i].room, part[i].user, entitled')
      BY <2>0, <2>2 DEF Known
    <2> HIDE DEF x
    <2>7. GoodRow(part[i], entitled', Kinds)
      BY <2>1, <2>5, MoreRow
    <2>8. GoodRow(x, entitled', Kinds)
      BY <2>3, <2>6, <2>7, RowGood
    <2>9. QED
      BY <1>1, <1>2, <2>2, <2>5, <2>8, KeepsPart
  <1>5. QED
    BY <1>3, <1>4

LEMMA CountedInv ==
  ASSUME IInv, NEW c \in Calls, CountAdmitted(c) \/ CountRemoved(c)
  PROVE  IInv'
  <1>1. at[c].room \in Rooms
    BY Facts DEF Call, CountAdmitted, CountRemoved
  <1>2. Moves(c)
    BY DoneMoves DEF CountAdmitted, CountRemoved
  <1>3. QED
    BY <1>1, <1>2, SubCountGood DEF CountAdmitted, CountRemoved

LEMMA DeleteRowInv ==
  ASSUME IInv, NEW c \in Calls, DeleteRow(c)
  PROVE  IInv'
  <1>1. at[c].id \in Ids
    BY Facts DEF DeleteRow, Call, WithId
  <1>2. Moves(c) /\ UNCHANGED <<rooms, tokens, entitled>>
    BY DoneMoves DEF DeleteRow
  <1>3. CASE part' = part
    BY <1>2, <1>3, KeepsCall
  <1>4. CASE part' = [part EXCEPT ![at[c].id] = Gone]
    BY <1>1, <1>2, <1>4, KeepsPart DEF IInv, ListInv
  <1>5. QED
    BY <1>3, <1>4 DEF DeleteRow

LEMMA FindBlockedInv ==
  ASSUME IInv, NEW c \in Calls, FindBlocked(c)
  PROVE  IInv'
  <1>1. /\ at[c] \in Local /\ at[c].pc = "block_row"
        /\ at[c].room \in Rooms /\ at[c].user \in Users /\ at[c].id \in Ids
    BY Facts DEF FindBlocked, Call, WithId
  <1> DEFINE x == [part[at[c].id] EXCEPT !.status = "denied", !.removed = TRUE]
             l == [at[c] EXCEPT !.pc = "block_save", !.row = x]
  <1>2. part[at[c].id] \in Row /\ GoodRow(part[at[c].id], entitled, Kinds)
    BY <1>1, Facts DEF FindBlocked
  <1>3. /\ x \in Row /\ x.room = part[at[c].id].room /\ x.user = part[at[c].id].user
        /\ x.email = part[at[c].id].email /\ x.status = "denied"
        /\ x.role = part[at[c].id].role
    BY <1>2 DEF Row, Statuses
  <1>4. Step(c, l)
    BY DEF FindBlocked
  <1> HIDE DEF x
  <1>5. GoodRow(x, entitled, Kinds)
    BY <1>2, <1>3, RowGood, RoleGood
  <1>6. /\ l \in Local /\ l.pc = "block_save" /\ l.room = at[c].room /\ l.user = at[c].user
        /\ l.id = at[c].id /\ l.row = x
    BY <1>1, <1>3 DEF Local, PCs
  <1> HIDE DEF l
  <1>7. Call(l, entitled, Kinds)
    BY <1>1, <1>5, <1>6, HeldRow
  <1>8. QED
    BY <1>4, <1>7, StepMoves, KeepsCall DEF FindBlocked

LEMMA RemoveRowInv ==
  ASSUME IInv, NEW c \in Calls, RemoveRow(c)
  PROVE  IInv'
  <1> DEFINE i == at[c].id
             x == [LeftRow(part[i]) EXCEPT !.status = "removed", !.removed = TRUE]
  <1>1. at[c].pc = "remove_row" /\ i \in Ids
    BY Facts DEF RemoveRow, Call, WithId
  <1>2. Moves(c) /\ UNCHANGED <<rooms, tokens, entitled>>
    BY <1>1, GotoMoves DEF RemoveRow, PCs, WithSnap, WithId, WithRow, WithClaim, WithList,
                           Joining, WithOther, Promoting
  <1>3. CASE ~Present(i)
    BY <1>2, <1>3, KeepsCall DEF RemoveRow
  <1>4. CASE Present(i)
    <2>1. part[i] \in Row /\ GoodRow(part[i], entitled, Kinds)
      BY <1>1, <1>4, Facts
    <2>2. part' = [part EXCEPT ![i] = x]
      BY <1>4 DEF RemoveRow
    <2>3. /\ x \in Row /\ x.room = part[i].room /\ x.user = part[i].user
          /\ x.email = part[i].email /\ x.status = "removed" /\ x.role = part[i].role
      BY <2>1 DEF LeftRow, Row, Statuses
    <2> HIDE DEF x
    <2>4. GoodRow(x, entitled, Kinds)
      BY <2>1, <2>3, RowGood, RoleGood
    <2>5. QED
      BY <1>1, <1>2, <2>2, <2>4, KeepsPart DEF IInv, ListInv
  <1>5. QED
    BY <1>3, <1>4

-----------------------------------------------------------------------------
(* Passing the host's role on *)

LEMMA WithOtherInv ==
  ASSUME IInv, NEW c \in Calls, NEW u \in Users, NEW r \in Rooms, NEW v \in Users,
         TransferHost(c, u, v, r) \/ InviteUserByEmail(c, u, r, v)
  PROVE  IInv'
  <1>1. PICK pc \in {"transfer_old", "invite_check"} :
           /\ Begin(c, [Frame(pc, r, u) EXCEPT !.other = v])
           /\ UNCHANGED <<rooms, part, tokens, entitled>>
    BY DEF TransferHost, InviteUserByEmail
  <1> DEFINE f == Frame(pc, r, u)
             l == [f EXCEPT !.other = v]
  <1>2. f \in Local /\ f.pc = pc /\ f.room = r /\ f.user = u
    BY FrameFields DEF PCs
  <1> HIDE DEF f
  <1>3. l \in Local /\ l.pc = pc /\ l.room = r /\ l.user = u /\ l.other = v
    BY <1>2 DEF Local
  <1> HIDE DEF l
  <1>4. Call(l, entitled, Kinds)
    BY <1>3 DEF Call, WithSnap, WithId, WithRow, WithClaim, WithList, Joining, WithOther,
                Promoting
  <1>5. QED
    BY <1>1, <1>4, Begins DEF f, l

LEMMA FindOldHostInv ==
  ASSUME IInv, NEW c \in Calls, FindOldHost(c)
  PROVE  IInv'
  <1>1. /\ at[c] \in Local /\ at[c].pc = "transfer_old"
        /\ at[c].room \in Rooms /\ at[c].user \in Users /\ at[c].other \in Users
    BY Facts DEF FindOldHost, Call, WithOther
  <1>2. PICK i \in RowsOf(at[c].room, at[c].user) :
           Step(c, [at[c] EXCEPT !.pc = "transfer_new", !.id = i,
                                 !.row = [part[i] EXCEPT !.role = "participant"]])
    BY DEF FindOldHost
  <1> DEFINE x == [part[i] EXCEPT !.role = "participant"]
             l == [at[c] EXCEPT !.pc = "transfer_new", !.id = i, !.row = x]
  <1>3. i \in Ids /\ part[i] \in Row /\ GoodRow(part[i], entitled, Kinds)
    BY <1>1, Facts
  <1>4. /\ x \in Row /\ x.room = part[i].room /\ x.user = part[i].user
        /\ x.email = part[i].email /\ x.status = part[i].status /\ x.role = "participant"
        /\ x.removed = part[i].removed
    BY <1>3 DEF Row
  <1>5. Step(c, l)
    BY <1>2
  <1> HIDE DEF x
  <1>6. GoodRow(x, entitled, Kinds)
    <2>1. x.status = "joined" /\ x.user # NoUser => Known(x.room, x.user, entitled)
      BY <1>3, <1>4 DEF GoodRow, GoodUser
    <2>2. x.status \in {"invited", "waiting", "declined"} => ~x.removed
      BY <1>3, <1>4 DEF GoodRow
    <2>3. QED
      BY <1>3, <1>4, <2>1, <2>2, RowGood
  <1>7. /\ l \in Local /\ l.pc = "transfer_new" /\ l.room = at[c].room /\ l.user = at[c].user
        /\ l.other = at[c].other /\ l.id = i /\ l.row = x
    BY <1>1, <1>3, <1>4 DEF Local, PCs
  <1> HIDE DEF l
  <1>8. Call(l, entitled, Kinds)
    BY <1>1, <1>3, <1>6, <1>7 DEF Call, WithSnap, WithId, WithRow, WithClaim, WithList, Joining,
                                  WithOther, Promoting
  <1>9. QED
    BY <1>5, <1>8, StepMoves, KeepsCall DEF FindOldHost

LEMMA FindNextHostInv ==
  ASSUME IInv, NEW c \in Calls, FindNextHost(c)
  PROVE  IInv'
  <1>1. /\ at[c] \in Local /\ at[c].pc = "transfer_new"
        /\ at[c].room \in Rooms /\ at[c].user \in Users /\ at[c].other \in Users
        /\ at[c].id \in Ids /\ GoodRow(at[c].row, entitled, Kinds)
    BY Facts DEF FindNextHost, Call, WithOther, WithId, WithRow
  <1>2. PICK i \in RowsOf(at[c].room, at[c].other) :
           /\ MayHost(part[i])
           /\ Step(c, [at[c] EXCEPT !.pc = "transfer_demote",
                           !.list = {[id |-> i, row |-> [part[i] EXCEPT !.role = "host"]]}])
    BY DEF FindNextHost
  <1> DEFINE x == [part[i] EXCEPT !.role = "host"]
             s == {[id |-> i, row |-> x]}
             l == [at[c] EXCEPT !.pc = "transfer_demote", !.list = s]
  <1>3. /\ i \in Ids /\ part[i] \in Row /\ GoodRow(part[i], entitled, Kinds)
        /\ part[i].room = at[c].room /\ part[i].user = at[c].other
        /\ GoodUser(part[i], entitled, Kinds)
    BY <1>1, Facts
  <1>4. /\ Known(at[c].room, at[c].other, entitled)
        /\ Kinds[at[c].room] # "public" => Asked(at[c].room, at[c].other, entitled)
    BY <1>2, <1>3 DEF MayHost, GoodUser
  <1>5. /\ x \in Row /\ x.room = part[i].room /\ x.user = part[i].user
        /\ x.email = part[i].email /\ x.status = "joined"
    BY <1>2, <1>3 DEF Row, MayHost
  <1>6. Step(c, l)
    BY <1>2
  <1> HIDE DEF x
  <1>7. GoodRow(x, entitled, Kinds)
    BY <1>3, <1>4, <1>5, RowGood
  <1>8. s \in SUBSET Copy /\ \A y \in s : GoodRow(y.row, entitled, Kinds)
    BY <1>3, <1>5, <1>7 DEF Copy
  <1> HIDE DEF s
  <1>9. /\ l \in Local /\ l.pc = "transfer_demote" /\ l.room = at[c].room
        /\ l.user = at[c].user /\ l.other = at[c].other /\ l.id = at[c].id
        /\ l.row = at[c].row /\ l.list = s
    BY <1>1, <1>8 DEF Local, PCs
  <1> HIDE DEF l
  <1>10. Call(l, entitled, Kinds)
    BY <1>1, <1>4, <1>8, <1>9 DEF Call, WithSnap, WithId, WithRow, WithClaim, WithList, Joining,
                                  WithOther, Promoting
  <1>11. QED
    BY <1>6, <1>10, StepMoves, KeepsCall DEF FindNextHost

LEMMA PromoteInv ==
  ASSUME IInv, NEW c \in Calls, Promote(c)
  PROVE  IInv'
  <1>1. /\ at[c].pc = "transfer_promote" /\ at[c].list \in SUBSET Copy
        /\ \A x \in at[c].list : GoodRow(x.row, entitled, Kinds)
    BY Facts DEF Promote, Call, WithList, Local
  <1>2. PICK x \in at[c].list : Save(x.id, x.row)
    BY DEF Promote
  <1>3. x.id \in Ids /\ GoodRow(x.row, entitled, Kinds)
    BY <1>1 DEF Copy
  <1>4. Moves(c)
    BY <1>1, GotoMoves DEF Promote, PCs, WithSnap, WithId, WithRow, WithClaim, WithList, Joining,
                           WithOther, Promoting
  <1>5. QED
    BY <1>2, <1>3, <1>4, KeepsSave DEF Promote

LEMMA UpdateHostIDInv ==
  ASSUME IInv, NEW c \in Calls, UpdateHostID(c)
  PROVE  IInv'
  <1> DEFINE r == at[c].room
             x == [rooms[r] EXCEPT !.host = at[c].other]
  <1>1. /\ r \in Rooms /\ at[c].other \in Users
        /\ Known(r, at[c].other, entitled)
        /\ Kinds[r] # "public" => Asked(r, at[c].other, entitled)
    BY Facts DEF UpdateHostID, Call, WithOther, Promoting
  <1>2. rooms[r] \in Room /\ rooms[r].type = Kinds[r]
    BY <1>1, Facts DEF GoodRoom
  <1>3. x \in Room /\ x.type = Kinds[r] /\ x.host = at[c].other
    BY <1>1, <1>2 DEF Room
  <1>4. Moves(c) /\ UNCHANGED <<part, tokens, entitled>> /\ rooms' = [rooms EXCEPT ![r] = x]
    BY DoneMoves DEF UpdateHostID
  <1> HIDE DEF x
  <1>5. GoodRoom(r, x, entitled, Kinds)
    BY <1>1, <1>3 DEF GoodRoom
  <1>6. QED
    BY <1>1, <1>4, <1>5, KeepsRooms

-----------------------------------------------------------------------------
(* Invitations *)

LEMMA CheckEmailInv ==
  ASSUME IInv, NEW c \in Calls, CheckEmail(c)
  PROVE  IInv'
  <1>1. Moves(c)
    BY GotoMoves DEF CheckEmail, PCs, WithSnap, WithId, WithRow, WithClaim, WithList, Joining,
                     WithOther, Promoting
  <1>2. QED
    BY <1>1, KeepsCall DEF CheckEmail

LEMMA CreateInvitationInv ==
  ASSUME IInv, NEW c \in Calls, CreateInvitation(c)
  PROVE  IInv'
  <1>1. at[c].room \in Rooms /\ at[c].other \in Users
    BY Facts DEF CreateInvitation, Call, WithOther
  <1> DEFINE x == [NewParticipant(at[c].room, NoUser, "participant", "invited")
                     EXCEPT !.email = at[c].other]
  <1>2. /\ x \in Row /\ x.room = at[c].room /\ x.user = NoUser /\ x.email = at[c].other
        /\ x.status = "invited" /\ x.role = "participant" /\ ~x.removed
    BY <1>1 DEF NewParticipant, NoRow, Row, Statuses
  <1>3. PICK i \in Ids : Save(i, x)
    BY DEF CreateInvitation, Insert
  <1> HIDE DEF x
  <1>4. entitled' = entitled \union {<<at[c].room, at[c].other, "invited">>}
    BY DEF CreateInvitation
  <1>5. Asked(at[c].room, at[c].other, entitled')
    BY <1>4 DEF Asked
  <1>6. GoodRow(x, entitled', Kinds)
    BY <1>2, <1>5 DEF GoodRow
  <1>7. entitled \subseteq entitled' /\ entitled' \in SUBSET (Rooms \X Users \X Reasons)
    BY <1>1, <1>4 DEF IInv, ListInv, Reasons
  <1>8. Moves(c) /\ UNCHANGED <<rooms, tokens>>
    BY DoneMoves DEF CreateInvitation
  <1>9. part' = [part EXCEPT ![i] = x]
    BY <1>3 DEF Save
  <1>10. QED
    BY <1>6, <1>7, <1>8, <1>9, KeepsPart

\* What answering an invitation makes of its row.
LEMMA AnswerGood ==
  ASSUME IInv, NEW r \in Rooms, NEW u \in Users, NEW i \in Invitations(r, u),
         NEW s \in {"joined", "declined"}, NEW e, entitled \subseteq e,
         s = "joined" => Known(r, u, e)
  PROVE  i \in Ids /\ GoodRow([part[i] EXCEPT !.user = u, !.status = s], e, Kinds)
  <1> DEFINE x == [part[i] EXCEPT !.user = u, !.status = s]
  <1>1. /\ i \in Ids /\ Present(i) /\ part[i].room = r /\ part[i].email = u
        /\ part[i].status = "invited"
    BY DEF Invitations, Present
  <1>2. part[i] \in Row /\ GoodRow(part[i], entitled, Kinds)
    BY <1>1, Facts
  <1>3. GoodRow(part[i], e, Kinds)
    BY <1>2, MoreRow
  <1>4. /\ x \in Row /\ x.room = r /\ x.user = u /\ x.email = u /\ x.status = s
        /\ x.role = part[i].role /\ x.removed = part[i].removed
    BY <1>1, <1>2 DEF Row, Statuses
  <1>5. ~x.removed
    BY <1>1, <1>3, <1>4 DEF GoodRow
  <1>6. Asked(r, u, e) /\ part[i].user \in {NoUser, u}
    BY <1>1, <1>3, RoomNames DEF GoodRow
  <1>7. x.role = "host" => Known(r, u, e)
    BY <1>1, <1>3, <1>4, <1>6 DEF GoodRow, GoodUser
  <1> HIDE DEF x
  <1>8. GoodUser(x, e, Kinds)
    BY <1>4, <1>6, <1>7 DEF GoodUser
  <1>9. GoodRow(x, e, Kinds)
    BY <1>4, <1>5, <1>6, <1>8 DEF GoodRow
  <1>10. QED
    BY <1>1, <1>9 DEF x

LEMMA AcceptInvitationInv ==
  ASSUME IInv, NEW c \in Calls, NEW u \in Users, NEW r \in Rooms, AcceptInvitation(c, u, r)
  PROVE  IInv'
  <1>1. PICK i \in Invitations(r, u) :
           Begin(c, [Frame("accept_room", r, u) EXCEPT
                       !.id = i, !.row = [part[i] EXCEPT !.user = u, !.status = "joined"]])
    BY DEF AcceptInvitation
  <1> DEFINE e == entitled \union {<<r, u, "accepted">>}
             x == [part[i] EXCEPT !.user = u, !.status = "joined"]
             f == Frame("accept_room", r, u)
             l == [f EXCEPT !.id = i, !.row = x]
  <1>2. entitled \subseteq e /\ Known(r, u, e)
    BY DEF Known
  <1> HIDE DEF e
  <1>3. i \in Ids /\ GoodRow(x, e, Kinds)
    BY <1>2, AnswerGood
  <1>4. f \in Local /\ f.pc = "accept_room" /\ f.room = r /\ f.user = u
    BY FrameFields DEF PCs
  <1>5. Begin(c, l)
    BY <1>1
  <1> HIDE DEF x, f
  <1>6. /\ l \in Local /\ l.pc = "accept_room" /\ l.room = r /\ l.user = u /\ l.id = i
        /\ l.row = x
    BY <1>3, <1>4 DEF GoodRow, Local
  <1> HIDE DEF l
  <1>7. Accepted(l, entitled) = e
    BY <1>6 DEF Accepted, e
  <1>8. Call(l, entitled, Kinds)
    BY <1>3, <1>6, <1>7 DEF Call, WithSnap, WithId, WithRow, WithClaim, WithList, Joining,
                            WithOther, Promoting
  <1>9. QED
    BY <1>5, <1>8, Begins DEF AcceptInvitation

LEMMA FindRoomInv ==
  ASSUME IInv, NEW c \in Calls, FindRoom(c)
  PROVE  IInv'
  <1>1. /\ at[c] \in Local /\ at[c].pc = "accept_room"
        /\ at[c].room \in Rooms /\ at[c].user \in Users /\ at[c].id \in Ids
        /\ GoodRow(at[c].row, Accepted(at[c], entitled), Kinds)
    BY Facts DEF FindRoom, Call, WithId, WithClaim
  <1> DEFINE s == rooms[at[c].room]
             l == [at[c] EXCEPT !.pc = "accept_save", !.snap = s]
  <1>2. s \in Room /\ GoodRoom(at[c].room, s, entitled, Kinds)
    BY <1>1, Facts
  <1>3. Step(c, l)
    BY DEF FindRoom
  <1> HIDE DEF s
  <1>4. /\ l \in Local /\ l.pc = "accept_save" /\ l.room = at[c].room /\ l.user = at[c].user
        /\ l.id = at[c].id /\ l.row = at[c].row /\ l.snap = s
    BY <1>1, <1>2 DEF Local, PCs
  <1> HIDE DEF l
  <1>5. Accepted(l, entitled) = Accepted(at[c], entitled)
    BY <1>4 DEF Accepted
  <1>6. Call(l, entitled, Kinds)
    BY <1>1, <1>2, <1>4, <1>5 DEF Call, WithSnap, WithId, WithRow, WithClaim, WithList, Joining,
                                  WithOther, Promoting
  <1>7. QED
    BY <1>3, <1>6, StepMoves, KeepsCall DEF FindRoom

\* Whoever accepts is entitled from then on, and gets his token.
LEMMA AcceptInv ==
  ASSUME IInv, NEW c \in Calls, Accept(c)
  PROVE  IInv'
  <1>1. /\ at[c] \in Local /\ at[c].pc = "accept_save" /\ Call(at[c], entitled, Kinds)
        /\ at[c].room \in Rooms /\ at[c].user \in Users /\ at[c].id \in Ids
        /\ GoodRow(at[c].row, Accepted(at[c], entitled), Kinds)
        /\ GoodRoom(at[c].room, at[c].snap, entitled, Kinds)
    BY Facts DEF Accept, Call, WithId, WithClaim, WithSnap
  <1>2. entitled' = Accepted(at[c], entitled) /\ entitled \subseteq entitled'
    BY DEF Accept, Accepted
  <1>3. Known(at[c].room, at[c].user, entitled')
    BY <1>2 DEF Accepted, Known
  <1>4. entitled' \in SUBSET (Rooms \X Users \X Reasons)
    BY <1>1, <1>2 DEF Accepted, IInv, ListInv, Reasons
  <1>5. PICK l : Step(c, l) /\ Call(l, entitled', Kinds)
    <2>1. CASE Done(c)
      BY <1>2, <2>1, IdleCall, MoreCall DEF Done
    <2>2. CASE Step(c, [at[c] EXCEPT !.pc = "save_room", !.snap.count = @ + 1])
      <3> DEFINE n == at[c].snap.count + 1
                 s == [at[c].snap EXCEPT !.count = n]
                 l == [at[c] EXCEPT !.pc = "save_room", !.snap = s]
      <3>1. n \in Nat
        BY <1>1 DEF GoodRoom, Room
      <3>2. Step(c, l)
        BY <1>1, <2>2 DEF Local
      <3> HIDE DEF n
      <3>3. GoodRoom(at[c].room, s, entitled, Kinds)
        BY <1>1, <3>1, CountGood
      <3> HIDE DEF s
      <3>4. l \in Local /\ l.pc = "save_room" /\ l.room = at[c].room /\ l.user = at[c].user
            /\ l.snap = s
        BY <1>1, <3>3 DEF Local, PCs, GoodRoom
      <3> HIDE DEF l
      <3>5. Call(l, entitled, Kinds)
        BY <1>1, <3>3, <3>4 DEF Call, WithSnap, WithId, WithRow, WithClaim, WithList, Joining,
                                WithOther, Promoting
      <3>6. QED
        BY <1>2, <3>2, <3>5, MoreCall
    <2>3. QED
      BY <2>1, <2>2 DEF Accept
  <1>6. at' = [at EXCEPT ![c] = l] /\ ListInv'
    BY <1>4, <1>5 DEF Step, IInv, ListInv
  <1>7. rooms' = rooms /\ Kinds' = Kinds /\ part' = [part EXCEPT ![at[c].id] = at[c].row]
    BY DEF Accept, Save, Kinds
  <1>8. GoodRow(at[c].row, entitled', Kinds) /\ at[c].row \in Row
    BY <1>1, <1>2 DEF GoodRow
  <1>9. /\ part' \in [Ids -> Row \union {NoRow, Gone}]
        /\ \A i \in Ids : part'[i] = part[i] \/ GoodRow(part'[i], entitled', Kinds)
    BY <1>1, <1>7, <1>8 DEF IInv, PartInv
  <1>10. /\ tokens' \in SUBSET (Rooms \X Users)
         /\ \A r \in Rooms, u \in Users :
              <<r, u>> \in tokens' => <<r, u>> \in tokens \/ Known(r, u, entitled')
    BY <1>1, <1>3 DEF Accept, IInv, TokensInv
  <1>11. QED
    BY <1>2, <1>5, <1>6, <1>7, <1>9, <1>10, Keeps DEF IInv, RoomsInv

LEMMA DeclineInvitationInv ==
  ASSUME IInv, NEW c \in Calls, NEW u \in Users, NEW r \in Rooms, DeclineInvitation(c, u, r)
  PROVE  IInv'
  <1>1. PICK i \in Invitations(r, u) :
           Begin(c, [Frame("decline_save", r, u) EXCEPT
                       !.id = i, !.row = [part[i] EXCEPT !.user = u, !.status = "declined"]])
    BY DEF DeclineInvitation
  <1> DEFINE x == [part[i] EXCEPT !.user = u, !.status = "declined"]
             f == Frame("decline_save", r, u)
             l == [f EXCEPT !.id = i, !.row = x]
  <1>2. i \in Ids /\ GoodRow(x, entitled, Kinds)
    BY AnswerGood
  <1>3. f \in Local /\ f.pc = "decline_save" /\ f.room = r /\ f.user = u
    BY FrameFields DEF PCs
  <1>4. Begin(c, l)
    BY <1>1
  <1> HIDE DEF x, f
  <1>5. /\ l \in Local /\ l.pc = "decline_save" /\ l.room = r /\ l.user = u /\ l.id = i
        /\ l.row = x
    BY <1>2, <1>3 DEF GoodRow, Local
  <1> HIDE DEF l
  <1>6. Call(l, entitled, Kinds)
    BY <1>2, <1>5, HeldRow
  <1>7. QED
    BY <1>4, <1>6, Begins DEF DeclineInvitation

-----------------------------------------------------------------------------
(* Those who connect *)

LEMMA ParticipantJoinedInv ==
  ASSUME IInv, NEW c \in Calls, NEW u \in Users, NEW r \in Rooms, ParticipantJoined(c, u, r)
  PROVE  IInv'
  <1>1. PICK i \in RowsOf(r, u) :
           Begin(c, [Frame("connect_save", r, u) EXCEPT
                       !.id = i, !.row = [part[i] EXCEPT !.status = "joined"]])
    BY DEF ParticipantJoined
  <1> DEFINE x == [part[i] EXCEPT !.status = "joined"]
             f == Frame("connect_save", r, u)
             l == [f EXCEPT !.id = i, !.row = x]
  <1>2. /\ i \in Ids /\ part[i] \in Row /\ GoodRow(part[i], entitled, Kinds)
        /\ part[i].room = r /\ part[i].user = u
    BY Facts
  <1>3. Known(r, u, entitled)
    BY DEF ParticipantJoined, IInv, TokensInv
  <1>4. /\ x \in Row /\ x.room = r /\ x.user = u /\ x.email = part[i].email
        /\ x.status = "joined"
    BY <1>2 DEF Row, Statuses
  <1>5. f \in Local /\ f.pc = "connect_save" /\ f.room = r /\ f.user = u
    BY FrameFields DEF PCs
  <1>6. Begin(c, l)
    BY <1>1
  <1> HIDE DEF x, f
  <1>7. GoodRow(x, entitled, Kinds)
    BY <1>2, <1>3, <1>4, RowGood
  <1>8. /\ l \in Local /\ l.pc = "connect_save" /\ l.room = r /\ l.user = u /\ l.id = i
        /\ l.row = x
    BY <1>2, <1>4, <1>5 DEF Local
  <1> HIDE DEF l
  <1>9. Call(l, entitled, Kinds)
    BY <1>2, <1>7, <1>8, HeldRow
  <1>10. QED
    BY <1>6, <1>9, Begins DEF ParticipantJoined

LEMMA GetMyParticipantStatusInv ==
  ASSUME IInv, NEW u \in Users, NEW r \in Rooms, GetMyParticipantStatus(u, r)
  PROVE  IInv'
  <1>1. Known(r, u, entitled)
    BY Facts DEF GetMyParticipantStatus, GoodUser
  <1>2. TokensInv'
    BY <1>1 DEF GetMyParticipantStatus, IInv, TokensInv
  <1>3. RoomsInv' /\ PartInv' /\ CallsInv' /\ ListInv'
    BY DEF GetMyParticipantStatus, IInv, RoomsInv, PartInv, CallsInv, ListInv, Kinds, Present
  <1>4. QED
    BY <1>2, <1>3 DEF IInv

-----------------------------------------------------------------------------
(* Every step *)

LEMMA NewCallInv ==
  ASSUME IInv, NEW c \in Calls, NewCall(c)
  PROVE  IInv'
  <1>1. PICK u \in Users, r \in Rooms : NewCall(c)!(u, r)
    BY DEF NewCall
  <1>2. CASE LiveKitEvent(c, u, r) \/ MemberRequest(c, u, r)
    BY <1>2, StartRoomInv, EndRoomInv, ParticipantJoinedInv, LeaveRoomInv, JoinRoomInv
       DEF LiveKitEvent, MemberRequest
  <1>3. CASE RecordRequest(c, u, r)
    <2>1. PICK i \in Ids, pc \in {"admit_row", "deny_row", "block_row", "remove_row"} :
             HostCall(c, u, r, i, pc)
      BY <1>3 DEF RecordRequest, AdmitParticipant, DenyParticipant, BlockParticipant,
                  RemoveParticipant
    <2>2. QED
      BY <2>1, HostCallInv
  <1>4. CASE HostRequest(c, u, r)
    BY <1>4, WithOtherInv DEF HostRequest
  <1>5. CASE InvitationRequest(c, u, r)
    BY <1>5, WithOtherInv, AcceptInvitationInv, DeclineInvitationInv DEF InvitationRequest
  <1>6. QED
    BY <1>1, <1>2, <1>3, <1>4, <1>5

LEMMA StatementInv ==
  ASSUME IInv, NEW c \in Calls, Statement(c)
  PROVE  IInv'
  BY SaveRoomInv, SaveParticipantInv, CheckInvitedInv, FindParticipantInv, CreateParticipantInv,
     CountHostInv, LeavingInv, FindNewHostInv, PromoteInRoomInv, ListActiveInv, SaveEndedInv,
     MarkLeftInv, FindWaitingInv, MarkAsJoinedInv, CountedInv, DeleteRowInv, FindBlockedInv,
     RemoveRowInv, FindOldHostInv, FindNextHostInv, PromoteInv, UpdateHostIDInv, CheckEmailInv,
     CreateInvitationInv, FindRoomInv, AcceptInv
     DEF Statement

LEMMA InvStep == IInv /\ [Next]_vars => IInv'
  <1> SUFFICES ASSUME IInv, [Next]_vars PROVE IInv'
    OBVIOUS
  <1>1. ASSUME NEW c \in Calls, NewCall(c) PROVE IInv'
    BY <1>1, NewCallInv
  <1>2. ASSUME NEW c \in Calls, Statement(c) PROVE IInv'
    BY <1>2, StatementInv
  <1>3. ASSUME NEW c \in Calls, Return(c) PROVE IInv'
    BY <1>3, DoneMoves, KeepsCall DEF Return
  <1>4. ASSUME NEW u \in Users, NEW r \in Rooms, GetMyParticipantStatus(u, r) PROVE IInv'
    BY <1>4, GetMyParticipantStatusInv
  <1>5. CASE UNCHANGED vars
    BY <1>5 DEF vars, IInv, RoomsInv, PartInv, CallsInv, TokensInv, ListInv, Kinds, Present
  <1>6. QED
    BY <1>1, <1>2, <1>3, <1>4, <1>5 DEF Next, Quiescent

LEMMA Invariance == Spec => []IInv
  BY InvInit, InvStep, PTL DEF Spec

-----------------------------------------------------------------------------
(* The theorems *)

\* The tables and the locals of the calls keep their types, however the calls overlap.
THEOREM RoomsTyped == Spec => []TypeOK
  <1>1. IInv => TypeOK
    BY DEF IInv, RoomsInv, PartInv, CallsInv, TokensInv, ListInv, TypeOK
  <1>2. QED
    BY <1>1, Invariance, PTL

\* Whoever is in a room, or has a token for it, made it, was admitted to it by its host or
\* accepted an invitation, or else the host of another room admitted a record of his: there
\* is no other way in, for any number of rooms, users and overlapping calls.
THEOREM WaitingRoomIsKept == Spec => []WaitingRoomHolds
  <1>1. ASSUME IInv PROVE WaitingRoomHolds
    <2>1. ASSUME NEW r \in Rooms, NEW u \in Users, Inside(r, u) \/ <<r, u>> \in tokens
          PROVE  Known(r, u, entitled)
      BY <1>1, <2>1, Facts DEF Inside, GoodUser, IInv, TokensInv
    <2>2. QED
      BY <2>1 DEF WaitingRoomHolds, Known, LetIn, LetInElsewhere
  <1>2. QED
    BY <1>1, Invariance, PTL

\* The host of a room, and whoever has the host's role in it, came in that way: no
\* transfer, promotion or stale copy of a room or of a row makes a host of anybody else.
THEOREM HostsWereLetIn == Spec => []HostsWereAdmitted
  <1>1. ASSUME IInv PROVE HostsWereAdmitted
    <2>1. \A r \in Rooms : CameIn(r, rooms[r].host)
      BY <1>1, Facts DEF GoodRoom, Known, CameIn, LetIn, LetInElsewhere
    <2>2. ASSUME NEW i \in Ids, Present(i), part[i].role = "host", part[i].user # NoUser
          PROVE  CameIn(part[i].room, part[i].user)
      BY <1>1, <2>2, Facts DEF GoodRow, GoodUser, Known, CameIn, LetIn, LetInElsewhere
    <2>3. QED
      BY <2>1, <2>2 DEF HostsWereAdmitted
  <1>2. QED
    BY <1>1, Invariance, PTL

\* A room that is not public has records only of its maker and of those it invited, and
\* only they become its host.
THEOREM PrivateRooms == Spec => []PrivateByInvitation
  <1>1. ASSUME IInv PROVE PrivateByInvitation
    <2>1. \A r \in Rooms : Kinds[r] = rooms[r].type
      BY DEF Kinds
    <2>2. ASSUME NEW r \in Rooms, rooms[r].type # "public" PROVE Expected(r, rooms[r].host)
      BY <1>1, <2>1, <2>2, Facts DEF GoodRoom, Asked, Expected
    <2>3. ASSUME NEW i \in Ids, Present(i), rooms[part[i].room].type # "public",
                 part[i].user # NoUser
          PROVE  Expected(part[i].room, part[i].user)
      <3>1. part[i].room \in Rooms /\ GoodRow(part[i], entitled, Kinds)
        BY <1>1, <2>3, Facts DEF Row
      <3>2. QED
        BY <2>1, <2>3, <3>1 DEF GoodRow, GoodUser, Asked, Expected
    <2>4. QED
      BY <2>2, <2>3 DEF PrivateByInvitation
  <1>2. QED
    BY <1>1, Invariance, PTL

=============================================================================
