-------------------------- MODULE RoomAccessProofs --------------------------
(* Rooms implements RoomAccess: for any number of rooms, users, records and  *)
(* calls.  The invariant of RoomsProofs says what a row may hold; to know    *)
(* that a step concerns one person only, it is needed too that every copy of *)
(* a row, however old, is of the person the row belongs to.                  *)
EXTENDS RoomsProofs

Real(row) == row.status \notin {"none", "deleted"}

\* The copies of rows that a call holds and may still save.
Holds(l) == {y \in {[id |-> l.id, row |-> l.row]} : l.pc \in WithRow \union WithClaim}
            \union {y \in l.list : l.pc \in WithList}

\* own says whose record, and of which room, each row is: of the rows that have been
\* deleted too, for a copy of them may be saved again.
OwnedBy(own) ==
  /\ \A i \in Ids : part[i].status # "none" => own[i] \in Rooms \X Users
  /\ \A i \in Ids : Present(i) => Whose(part[i]) = own[i]
  /\ \A c \in Calls : \A y \in Holds(at[c]) :
       /\ y.id \in Ids /\ part[y.id].status # "none"
       /\ Real(y.row) /\ Whose(y.row) = own[y.id]

Places == (Rooms \union {NoRoom}) \X (Users \union {NoUser})

OwnersInv == \E own \in [Ids -> Places] : OwnedBy(own)

\* Whoever accepts an invitation holds a row that puts him into the room.
ClaimOf(l) == l.pc \in WithClaim => /\ l.row.room = l.room /\ l.row.user = l.user
                                    /\ l.row.status = "joined"

ClaimsInv == \A c \in Calls : ClaimOf(at[c])

AInv == IInv /\ OwnersInv /\ ClaimsInv

-----------------------------------------------------------------------------
(* Steps that copy rows and save copies with care *)

\* A copy that a call makes is of the row as it is, or made of one it has held before.
Copied(c, y) ==
  /\ y.id \in Ids /\ Real(y.row)
  /\ \/ Present(y.id) /\ Whose(y.row) = Whose(part[y.id])
     \/ \E z \in Holds(at[c]) : z.id = y.id /\ Whose(z.row) = Whose(y.row)

\* What a call may write over row i.
Written(c, i, row) ==
  \/ Present(i) /\ row = Gone
  \/ Present(i) /\ Real(row) /\ Whose(row) = Whose(part[i])
  \/ \E y \in Holds(at[c]) : y.id = i /\ y.row = row
  \/ part[i].status = "none" /\ Real(row) /\ Whose(row) \in Rooms \X Users

Writes(c) == \E i, row : i \in Ids /\ part' = [part EXCEPT ![i] = row] /\ Written(c, i, row)

Careful(c) ==
  /\ \E l : /\ at' = [at EXCEPT ![c] = l]
            /\ ClaimOf(l) /\ \A y \in Holds(l) : Copied(c, y)
  /\ part' = part \/ Writes(c)

LEMMA PresentRow == ASSUME NEW i \in Ids, Present(i), IInv PROVE part[i] \in Row /\ Real(part[i])
  BY Facts DEF Present, Real

LEMMA GoneRow == Gone.status = "deleted"
  BY DEF Gone, NoRow

\* new is own, but for the row that may be new.
Extends(new, own, i, row) ==
  /\ \A k \in Ids : part[k].status # "none" => new[k] = own[k]
  /\ Real(row) => Whose(row) = new[i]
  /\ row.status # "none" /\ new[i] \in Rooms \X Users

\* A write leaves everybody's records his own, if those of a new row are given to him.
LEMMA WriteOwned ==
  ASSUME IInv, NEW c \in Calls, NEW own \in [Ids -> Places], OwnedBy(own),
         NEW i \in Ids, NEW row, part' = [part EXCEPT ![i] = row], Written(c, i, row)
  PROVE  \E new \in [Ids -> Places] : Extends(new, own, i, row)
  <1>1. CASE part[i].status = "none" /\ Real(row) /\ Whose(row) \in Rooms \X Users
    <2> DEFINE new == [own EXCEPT ![i] = Whose(row)]
    <2>1. new \in [Ids -> Places] /\ new[i] = Whose(row)
      BY <1>1 DEF Places
    <2>2. \A k \in Ids : part[k].status # "none" => new[k] = own[k]
      BY <1>1
    <2>3. row.status # "none"
      BY <1>1 DEF Real
    <2>4. new[i] \in Rooms \X Users
      BY <1>1, <2>1
    <2> HIDE DEF new
    <2>5. QED
      BY <1>1, <2>1, <2>2, <2>3, <2>4 DEF Extends
  <1>2. CASE \E y \in Holds(at[c]) : y.id = i /\ y.row = row
    <2>1. part[i].status # "none" /\ Real(row) /\ Whose(row) = own[i]
      BY <1>2 DEF OwnedBy
    <2>2. own[i] \in Rooms \X Users /\ row.status # "none"
      BY <2>1 DEF OwnedBy, Real
    <2>3. QED
      BY <2>1, <2>2 DEF Extends
  <1>3. CASE Present(i) /\ row = Gone
    <2>1. own[i] \in Rooms \X Users /\ ~Real(row) /\ row.status # "none"
      BY <1>3, GoneRow DEF OwnedBy, Present, Real
    <2>2. QED
      BY <2>1 DEF Extends
  <1>4. CASE Present(i) /\ Real(row) /\ Whose(row) = Whose(part[i])
    <2>1. own[i] \in Rooms \X Users /\ Whose(row) = own[i] /\ row.status # "none"
      BY <1>4 DEF OwnedBy, Present, Real
    <2>2. QED
      BY <2>1 DEF Extends
  <1>5. QED
    BY <1>1, <1>2, <1>3, <1>4, Zenon DEF Written

LEMMA OwnersKept ==
  ASSUME IInv, OwnersInv, NEW c \in Calls, Careful(c)
  PROVE  OwnersInv'
  <1>1. PICK own \in [Ids -> Places] : OwnedBy(own)
    BY DEF OwnersInv
  <1>2. PICK l : at' = [at EXCEPT ![c] = l] /\ \A y \in Holds(l) : Copied(c, y)
    BY DEF Careful
  <1>3. part \in [Ids -> Row \union {NoRow, Gone}] /\ at \in [Calls -> Local]
    BY DEF IInv, PartInv, CallsInv
  <1>4. ASSUME NEW y \in Holds(l)
        PROVE  /\ y.id \in Ids /\ part[y.id].status # "none"
               /\ Real(y.row) /\ Whose(y.row) = own[y.id]
    BY <1>1, <1>2 DEF Copied, OwnedBy, Present
  <1>5. ASSUME NEW b \in Calls, NEW y \in Holds(at'[b])
        PROVE  /\ y.id \in Ids /\ part[y.id].status # "none"
               /\ Real(y.row) /\ Whose(y.row) = own[y.id]
    <2>1. CASE b = c
      BY <1>2, <1>3, <1>4, <1>5, <2>1
    <2>2. CASE b # c
      <3>1. at'[b] = at[b]
        BY <1>2, <1>3, <2>2
      <3>2. QED
        BY <1>1, <1>5, <3>1 DEF OwnedBy
    <2>3. QED
      BY <2>1, <2>2
  <1>6. CASE part' = part
    <2>1. OwnedBy(own)'
      BY <1>1, <1>5, <1>6 DEF OwnedBy, Present
    <2>2. QED
      BY <2>1 DEF OwnersInv
  <1>7. CASE Writes(c)
    <2>1. PICK i, row : i \in Ids /\ part' = [part EXCEPT ![i] = row] /\ Written(c, i, row)
      BY <1>7 DEF Writes
    <2>2. PICK new \in [Ids -> Places] : Extends(new, own, i, row)
      BY <1>1, <2>1, WriteOwned
    <2>3. part'[i] = row /\ \A k \in Ids : k # i => part'[k] = part[k]
      BY <1>3, <2>1
    <2>4. ASSUME NEW k \in Ids, Present(k)' PROVE Whose(part'[k]) = new[k]
      BY <1>1, <2>2, <2>3, <2>4 DEF OwnedBy, Present, Real, Extends
    <2>5. ASSUME NEW b \in Calls, NEW y \in Holds(at'[b])
          PROVE  /\ y.id \in Ids /\ part'[y.id].status # "none"
                 /\ Real(y.row) /\ Whose(y.row) = new[y.id]
      BY <1>5, <2>2, <2>3, <2>5 DEF Extends
    <2>6. ASSUME NEW k \in Ids, part'[k].status # "none" PROVE new[k] \in Rooms \X Users
      BY <1>1, <2>2, <2>3, <2>6 DEF OwnedBy, Extends
    <2>7. OwnedBy(new)'
      BY <2>4, <2>5, <2>6 DEF OwnedBy
    <2>8. QED
      BY <2>7 DEF OwnersInv
  <1>8. QED
    BY <1>6, <1>7 DEF Careful

LEMMA ClaimsKept ==
  ASSUME IInv, ClaimsInv, NEW c \in Calls, Careful(c)
  PROVE  ClaimsInv'
  <1>1. PICK l : at' = [at EXCEPT ![c] = l] /\ ClaimOf(l)
    BY DEF Careful
  <1>2. at \in [Calls -> Local]
    BY DEF IInv, CallsInv
  <1>3. \A b \in Calls : at'[b] = at[b] \/ at'[b] = l
    BY <1>1, <1>2
  <1>4. QED
    BY <1>1, <1>3 DEF ClaimsInv, ClaimOf

-----------------------------------------------------------------------------
(* Copies *)

WithCopy == WithRow \union WithClaim \union WithList

LEMMA Pcs ==
  /\ WithCopy = {"join_save", "leave_save", "promote_save", "transfer_demote", "block_save",
                 "connect_save", "decline_save", "transfer_new", "accept_room", "accept_save",
                 "end_room", "end_rows", "transfer_promote"}
  /\ WithCopy \subseteq PCs /\ WithClaim \intersect WithList = {}
  BY DEF WithCopy, WithRow, WithClaim, WithList, PCs

LEMMA HoldsNothing == ASSUME NEW l, l.pc \notin WithCopy PROVE Holds(l) = {} /\ ClaimOf(l)
  BY DEF Holds, WithCopy, ClaimOf

LEMMA HoldsRow ==
  ASSUME NEW l, l.pc \notin WithList, NEW y \in Holds(l)
  PROVE  y.id = l.id /\ y.row = l.row
  BY DEF Holds

LEMMA HeldRowIn ==
  ASSUME NEW l, l.pc \in WithRow \union WithClaim
  PROVE  \E y \in Holds(l) : y.id = l.id /\ y.row = l.row
  <1>1. [id |-> l.id, row |-> l.row] \in Holds(l)
    BY DEF Holds
  <1>2. QED
    BY <1>1

\* A call that goes on with no more copies than it had.
LEMMA HoldsLess ==
  ASSUME IInv, OwnersInv, NEW c \in Calls, NEW l, Holds(l) \subseteq Holds(at[c])
  PROVE  \A y \in Holds(l) : Copied(c, y)
  <1>1. PICK own \in [Ids -> Places] : OwnedBy(own)
    BY DEF OwnersInv
  <1>2. QED
    BY <1>1 DEF OwnedBy, Copied

LEMMA GotoLess ==
  ASSUME NEW l, NEW pc, l \in Local,
         pc \in WithRow => l.pc \in WithRow, pc \in WithList => l.pc \in WithList,
         pc \notin WithClaim
  PROVE  Holds([l EXCEPT !.pc = pc]) \subseteq Holds(l) /\ ClaimOf([l EXCEPT !.pc = pc])
  <1> DEFINE m == [l EXCEPT !.pc = pc]
  <1>1. m.pc = pc /\ m.id = l.id /\ m.row = l.row /\ m.list = l.list
    BY DEF Local
  <1> HIDE DEF m
  <1>2. Holds(m) \subseteq Holds(l) /\ ClaimOf(m)
    BY <1>1 DEF Holds, ClaimOf
  <1>3. QED
    BY <1>2 DEF m

\* Calls that hold no copy of a row afterwards.
LEMMA CarefulBare ==
  ASSUME NEW c \in Calls, NEW l, at' = [at EXCEPT ![c] = l], l.pc \notin WithCopy,
         part' = part \/ Writes(c)
  PROVE  Careful(c)
  <1>1. Holds(l) = {} /\ ClaimOf(l)
    BY HoldsNothing
  <1>2. QED
    BY <1>1 DEF Careful

LEMMA CarefulDone ==
  ASSUME NEW c \in Calls, Done(c), part' = part \/ Writes(c)
  PROVE  Careful(c)
  <1>1. Idle.pc \notin WithCopy
    BY Pcs DEF Idle
  <1>2. QED
    BY <1>1, CarefulBare DEF Done, Step

LEMMA CarefulGoto ==
  ASSUME IInv, OwnersInv, NEW c \in Calls, NEW pc, Goto(c, pc), part' = part \/ Writes(c),
         pc \in WithRow => at[c].pc \in WithRow, pc \in WithList => at[c].pc \in WithList,
         pc \notin WithClaim
  PROVE  Careful(c)
  <1>1. CASE pc = "idle"
    BY <1>1, CarefulDone DEF Goto, Done
  <1>2. CASE pc # "idle"
    <2> DEFINE l == [at[c] EXCEPT !.pc = pc]
    <2>1. at' = [at EXCEPT ![c] = l]
      BY <1>2 DEF Goto, Step
    <2>2. at[c] \in Local
      BY Facts
    <2>3. Holds(l) \subseteq Holds(at[c]) /\ ClaimOf(l)
      BY <2>2, GotoLess
    <2> HIDE DEF l
    <2>4. \A y \in Holds(l) : Copied(c, y)
      BY <2>3, HoldsLess
    <2>5. QED
      BY <2>1, <2>3, <2>4 DEF Careful
  <1>3. QED
    BY <1>1, <1>2

\* A call that takes a copy of a row that is there, changed but for whose it is.
LEMMA CarefulCopy ==
  ASSUME NEW c \in Calls, NEW l, at' = [at EXCEPT ![c] = l], part' = part,
         l.pc \in WithCopy \ WithList, ClaimOf(l),
         l.id \in Ids, Present(l.id), Real(l.row), Whose(l.row) = Whose(part[l.id])
  PROVE  Careful(c)
  <1>1. ASSUME NEW y \in Holds(l) PROVE Copied(c, y)
    <2>1. y.id = l.id /\ y.row = l.row
      BY HoldsRow
    <2>2. QED
      BY <2>1 DEF Copied
  <1>2. QED
    BY <1>1 DEF Careful

LEMMA SameRecord ==
  ASSUME NEW x, NEW row, x.room = row.room, x.user = row.user, x.email = row.email
  PROVE  Whose(x) = Whose(row)
  BY DEF Whose

-----------------------------------------------------------------------------
(* New calls *)

LEMMA OtherFields ==
  ASSUME NEW f \in Local, NEW s, NEW v, NEW i
  PROVE  /\ [f EXCEPT !.snap = s].pc = f.pc
         /\ [f EXCEPT !.other = v].pc = f.pc
         /\ [f EXCEPT !.id = i, !.snap = s].pc = f.pc
  BY DEF Local

LEMMA FramePc ==
  ASSUME NEW pc \in {"save_room", "join_row", "join_auth", "end_list", "transfer_old", "admit_row",
                     "deny_row", "block_row", "remove_row", "invite_check"},
         NEW r \in Rooms, NEW u \in Users
  PROVE  Frame(pc, r, u) \in Local /\ Frame(pc, r, u).pc = pc /\ pc \notin WithCopy
  BY Pcs, FrameFields DEF PCs

LEMMA BeginsBare ==
  ASSUME NEW c \in Calls, NEW l, Begin(c, l), l.pc \notin WithCopy, part' = part
  PROVE  Careful(c)
  BY CarefulBare DEF Begin

LEMMA StartRoomCareful ==
  ASSUME NEW c \in Calls, NEW u \in Users, NEW r \in Rooms,
         StartRoom(c, u, r) \/ JoinRoom(c, u, r) \/ EndRoom(c, u, r)
  PROVE  Careful(c)
  <1>1. PICK pc \in {"save_room", "join_row", "join_auth", "end_list"} :
           (\E s : Begin(c, [Frame(pc, r, u) EXCEPT !.snap = s])) /\ part' = part
    BY DEF StartRoom, JoinRoom, EndRoom
  <1>2. PICK s : Begin(c, [Frame(pc, r, u) EXCEPT !.snap = s])
    BY <1>1
  <1>3. Frame(pc, r, u) \in Local /\ Frame(pc, r, u).pc = pc /\ pc \notin WithCopy
    BY FramePc
  <1>4. [Frame(pc, r, u) EXCEPT !.snap = s].pc = pc
    BY <1>3, OtherFields
  <1>5. QED
    BY <1>1, <1>2, <1>3, <1>4, BeginsBare

LEMMA HostCallCareful ==
  ASSUME NEW c \in Calls, NEW u \in Users, NEW r \in Rooms, RecordRequest(c, u, r)
  PROVE  Careful(c)
  <1>1. PICK i \in Ids, pc \in {"admit_row", "deny_row", "block_row", "remove_row"} :
           HostCall(c, u, r, i, pc)
    BY DEF RecordRequest, AdmitParticipant, DenyParticipant, BlockParticipant, RemoveParticipant
  <1>2. Begin(c, [Frame(pc, r, u) EXCEPT !.id = i, !.snap = rooms[r]]) /\ part' = part
    BY <1>1 DEF HostCall
  <1>3. [Frame(pc, r, u) EXCEPT !.id = i, !.snap = rooms[r]].pc = pc /\ pc \notin WithCopy
    BY FramePc, OtherFields
  <1>4. QED
    BY <1>2, <1>3, BeginsBare

LEMMA WithOtherCareful ==
  ASSUME NEW c \in Calls, NEW u \in Users, NEW r \in Rooms, NEW v \in Users,
         TransferHost(c, u, v, r) \/ InviteUserByEmail(c, u, r, v)
  PROVE  Careful(c)
  <1>1. PICK pc \in {"transfer_old", "invite_check"} :
           Begin(c, [Frame(pc, r, u) EXCEPT !.other = v]) /\ part' = part
    BY DEF TransferHost, InviteUserByEmail
  <1>2. [Frame(pc, r, u) EXCEPT !.other = v].pc = pc /\ pc \notin WithCopy
    BY FramePc, OtherFields
  <1>3. QED
    BY <1>1, <1>2, BeginsBare

\* LeaveRoom, ParticipantJoined and the answers to an invitation copy the user's row.
LEMMA CopyCareful ==
  ASSUME NEW c \in Calls, NEW pc \in {"leave_save", "connect_save", "accept_room", "decline_save"},
         NEW l, Begin(c, l), part' = part, l.pc = pc,
         l.id \in Ids, Present(l.id), Real(l.row), Whose(l.row) = Whose(part[l.id]), ClaimOf(l)
  PROVE  Careful(c)
  BY Pcs, CarefulCopy DEF WithList, Begin

LEMMA CopyFields ==
  ASSUME NEW pc \in {"leave_save", "connect_save", "accept_room", "decline_save"},
         NEW r \in Rooms, NEW u \in Users, NEW i, NEW x, NEW w
  PROVE  LET l == [Frame(pc, r, u) EXCEPT !.id = i, !.row = x]
             m == [Frame(pc, r, u) EXCEPT !.id = i, !.row = x, !.was = w] IN
         /\ l.pc = pc /\ l.room = r /\ l.user = u /\ l.id = i /\ l.row = x
         /\ m.pc = pc /\ m.room = r /\ m.user = u /\ m.id = i /\ m.row = x
  <1> DEFINE f == Frame(pc, r, u)
  <1>1. f \in Local /\ f.pc = pc /\ f.room = r /\ f.user = u
    BY FrameFields DEF PCs
  <1> HIDE DEF f
  <1>2. QED
    BY <1>1 DEF Local, f

LEMMA LeftSame ==
  ASSUME NEW row \in Row
  PROVE  Real(LeftRow(row)) /\ Whose(LeftRow(row)) = Whose(row)
  BY DEF Real, Whose, LeftRow, Row

LEMMA StatusSame ==
  ASSUME NEW row \in Row, NEW s \in Statuses \ {"none", "deleted"}
  PROVE  /\ Real([row EXCEPT !.status = s])
         /\ Whose([row EXCEPT !.status = s]) = Whose(row)
  BY DEF Real, Whose, Row

LEMMA LeaveRoomCareful ==
  ASSUME IInv, NEW c \in Calls, NEW u \in Users, NEW r \in Rooms, LeaveRoom(c, u, r)
  PROVE  Careful(c)
  <1>1. PICK i \in RowsOf(r, u) :
           Begin(c, [Frame("leave_save", r, u) EXCEPT
                       !.id = i, !.row = LeftRow(part[i]), !.was = part[i].status = "joined"])
    BY DEF LeaveRoom
  <1>2. PICK w \in BOOLEAN : w <=> part[i].status = "joined"
    OBVIOUS
  <1>3. i \in Ids /\ Present(i) /\ part[i] \in Row
    BY Facts
  <1> DEFINE l == [Frame("leave_save", r, u) EXCEPT !.id = i, !.row = LeftRow(part[i]), !.was = w]
  <1>4. Begin(c, l)
    BY <1>1, <1>2
  <1>5. l.pc = "leave_save" /\ l.id = i /\ l.row = LeftRow(part[i])
    BY CopyFields
  <1>6. part' = part
    BY DEF LeaveRoom
  <1> HIDE DEF l
  <1>7. ClaimOf(l)
    BY <1>5 DEF ClaimOf, WithClaim
  <1>8. QED
    BY <1>3, <1>4, <1>5, <1>6, <1>7, LeftSame, CopyCareful

LEMMA ParticipantJoinedCareful ==
  ASSUME IInv, NEW c \in Calls, NEW u \in Users, NEW r \in Rooms, ParticipantJoined(c, u, r)
  PROVE  Careful(c)
  <1>1. PICK i \in RowsOf(r, u) :
           Begin(c, [Frame("connect_save", r, u) EXCEPT
                       !.id = i, !.row = [part[i] EXCEPT !.status = "joined"]])
    BY DEF ParticipantJoined
  <1>2. i \in Ids /\ Present(i) /\ part[i] \in Row
    BY Facts
  <1>3. part' = part
    BY DEF ParticipantJoined
  <1>4. /\ Real([part[i] EXCEPT !.status = "joined"])
        /\ Whose([part[i] EXCEPT !.status = "joined"]) = Whose(part[i])
    BY <1>2, StatusSame DEF Statuses
  <1> DEFINE l == [Frame("connect_save", r, u) EXCEPT
                     !.id = i, !.row = [part[i] EXCEPT !.status = "joined"]]
  <1>5. l.pc = "connect_save" /\ l.id = i /\ l.row = [part[i] EXCEPT !.status = "joined"]
    BY CopyFields
  <1>6. Begin(c, l)
    BY <1>1
  <1> HIDE DEF l
  <1>7. ClaimOf(l)
    BY <1>5 DEF ClaimOf, WithClaim
  <1>8. QED
    BY <1>2, <1>3, <1>4, <1>5, <1>6, <1>7, CopyCareful

Answer(x, i, r, u, s) ==
  /\ i \in Ids /\ Present(i) /\ Real(x) /\ Whose(x) = Whose(part[i])
  /\ x.room = r /\ x.user = u /\ x.status = s

\* An invitation is answered by the user whose address it has.
LEMMA AnswerSame ==
  ASSUME IInv, NEW r \in Rooms, NEW u \in Users, NEW i \in Invitations(r, u),
         NEW s \in {"joined", "declined"}, NEW x, x = [part[i] EXCEPT !.user = u, !.status = s]
  PROVE  Answer(x, i, r, u, s)
  <1>1. /\ i \in Ids /\ Present(i) /\ part[i].room = r /\ part[i].email = u
    BY DEF Invitations, Present
  <1>2. part[i] \in Row /\ GoodRow(part[i], entitled, Kinds)
    BY <1>1, Facts
  <1>3. part[i].user \in {NoUser, u}
    BY <1>1, <1>2, RoomNames DEF GoodRow
  <1>4. x.room = r /\ x.user = u /\ x.status = s /\ Real(x)
    BY <1>1, <1>2 DEF Row, Real
  <1>5. Whose(x) = <<r, u>> /\ Whose(part[i]) = <<r, u>>
    BY <1>1, <1>3, <1>4, RoomNames DEF Whose
  <1>6. QED
    BY <1>1, <1>4, <1>5 DEF Answer

LEMMA AnswerCareful ==
  ASSUME IInv, NEW c \in Calls, NEW u \in Users, NEW r \in Rooms,
         AcceptInvitation(c, u, r) \/ DeclineInvitation(c, u, r)
  PROVE  Careful(c)
  <1>1. part' = part
    BY DEF AcceptInvitation, DeclineInvitation
  <1>2. CASE AcceptInvitation(c, u, r)
    <2>1. PICK i \in Invitations(r, u) :
             Begin(c, [Frame("accept_room", r, u) EXCEPT
                         !.id = i, !.row = [part[i] EXCEPT !.user = u, !.status = "joined"]])
      BY <1>2 DEF AcceptInvitation
    <2>0. PICK x : x = [part[i] EXCEPT !.user = u, !.status = "joined"]
      OBVIOUS
    <2>2. Answer(x, i, r, u, "joined")
      BY <2>0, AnswerSame
    <2> DEFINE l == [Frame("accept_room", r, u) EXCEPT !.id = i, !.row = x]
    <2>3. Begin(c, l)
      BY <2>0, <2>1
    <2>4. l.pc = "accept_room" /\ l.room = r /\ l.user = u /\ l.id = i /\ l.row = x
      BY CopyFields
    <2> HIDE DEF l
    <2>5. ClaimOf(l)
      BY <2>2, <2>4 DEF ClaimOf, WithClaim, Answer
    <2>6. QED
      BY <1>1, <2>2, <2>3, <2>4, <2>5, CopyCareful DEF Answer
  <1>3. CASE DeclineInvitation(c, u, r)
    <2>1. PICK i \in Invitations(r, u) :
             Begin(c, [Frame("decline_save", r, u) EXCEPT
                         !.id = i, !.row = [part[i] EXCEPT !.user = u, !.status = "declined"]])
      BY <1>3 DEF DeclineInvitation
    <2>0. PICK x : x = [part[i] EXCEPT !.user = u, !.status = "declined"]
      OBVIOUS
    <2>2. Answer(x, i, r, u, "declined")
      BY <2>0, AnswerSame
    <2> DEFINE l == [Frame("decline_save", r, u) EXCEPT !.id = i, !.row = x]
    <2>3. Begin(c, l)
      BY <2>0, <2>1
    <2>4. l.pc = "decline_save" /\ l.room = r /\ l.user = u /\ l.id = i /\ l.row = x
      BY CopyFields
    <2> HIDE DEF l
    <2>5. ClaimOf(l)
      BY <2>2, <2>4 DEF ClaimOf, WithClaim, Answer
    <2>6. QED
      BY <1>1, <2>2, <2>3, <2>4, <2>5, CopyCareful DEF Answer
  <1>4. QED
    BY <1>2, <1>3

LEMMA NewCallCareful ==
  ASSUME IInv, NEW c \in Calls, NewCall(c)
  PROVE  Careful(c)
  <1>1. PICK u \in Users, r \in Rooms : NewCall(c)!(u, r)
    BY DEF NewCall
  <1>2. QED
    BY <1>1, StartRoomCareful, HostCallCareful, WithOtherCareful, LeaveRoomCareful,
       ParticipantJoinedCareful, AnswerCareful
       DEF LiveKitEvent, MemberRequest, HostRequest, InvitationRequest

-----------------------------------------------------------------------------
(* Statements that copy nothing *)

LEMMA QuietCareful ==
  ASSUME IInv, OwnersInv, NEW c \in Calls,
         SaveRoom(c) \/ CountHost(c) \/ LeaveCount(c) \/ CountActive(c) \/ AutoEnd(c)
         \/ PromoteInRoom(c) \/ SaveEnded(c) \/ FindWaiting(c) \/ CountAdmitted(c)
         \/ CountRemoved(c) \/ UpdateHostID(c) \/ CheckEmail(c) \/ CheckInvited(c) \/ Return(c)
  PROVE  Careful(c)
  <1>1. part' = part
    BY DEF SaveRoom, CountHost, LeaveCount, CountActive, AutoEnd, PromoteInRoom, SaveEnded,
           FindWaiting, CountAdmitted, CountRemoved, UpdateHostID, CheckEmail, CheckInvited, Return
  <1>2. CASE Done(c)
    BY <1>1, <1>2, CarefulDone
  <1>3. CASE \E pc \in {"leave_check", "leave_end", "promote_row", "idle", "admit_mark",
                        "deny_delete", "invite_create", "join_row"} : Goto(c, pc)
    BY <1>1, <1>3, CarefulGoto DEF WithRow, WithClaim, WithList
  <1>4. CASE SaveEnded(c)
    <2>1. at[c].pc = "end_room" /\ \E pc \in {"idle", "end_rows"} : Goto(c, pc)
      BY <1>4 DEF SaveEnded
    <2>2. QED
      BY <1>1, <2>1, CarefulGoto DEF WithRow, WithClaim, WithList
  <1>5. ASSUME NEW s, Step(c, [at[c] EXCEPT !.pc = "save_room", !.snap = s])
        PROVE  Careful(c)
    <2> DEFINE l == [at[c] EXCEPT !.pc = "save_room", !.snap = s]
    <2>1. at[c] \in Local
      BY Facts
    <2>2. l.pc = "save_room" /\ at' = [at EXCEPT ![c] = l]
      BY <1>5, <2>1 DEF Local, Step
    <2> HIDE DEF l
    <2>3. l.pc \notin WithCopy
      BY <2>2, Pcs
    <2>4. QED
      BY <1>1, <2>2, <2>3, CarefulBare
  <1>6. CASE CountHost(c) \/ PromoteInRoom(c)
    <2>1. at[c] \in Local
      BY Facts
    <2>2. CASE CountHost(c)
      <3>1. Done(c) \/ Step(c, [at[c] EXCEPT !.pc = "save_room", !.snap.status = "active"])
        BY <2>2 DEF CountHost
      <3>2. CASE Step(c, [at[c] EXCEPT !.pc = "save_room", !.snap.status = "active"])
        <4>1. Step(c, [at[c] EXCEPT !.pc = "save_room",
                                    !.snap = [at[c].snap EXCEPT !.status = "active"]])
          BY <2>1, <3>2 DEF Local
        <4>2. QED
          BY <1>5, <4>1
      <3>3. QED
        BY <1>2, <3>1, <3>2
    <2>3. CASE PromoteInRoom(c)
      BY <1>5, <2>3 DEF PromoteInRoom
    <2>4. QED
      BY <1>6, <2>2, <2>3
  <1>7. CASE SaveRoom(c) \/ AutoEnd(c) \/ CountAdmitted(c) \/ CountRemoved(c) \/ UpdateHostID(c)
             \/ Return(c)
    BY <1>2, <1>7 DEF SaveRoom, AutoEnd, CountAdmitted, CountRemoved, UpdateHostID, Return
  <1>8. CASE LeaveCount(c) \/ CountActive(c) \/ FindWaiting(c) \/ CheckEmail(c) \/ CheckInvited(c)
    BY <1>3, <1>8 DEF LeaveCount, CountActive, FindWaiting, CheckEmail, CheckInvited
  <1>9. QED
    BY <1>4, <1>6, <1>7, <1>8

-----------------------------------------------------------------------------
(* Statements that read rows *)

\* The copy a statement makes of row i, to be saved later.
LEMMA StepCopy ==
  ASSUME NEW c \in Calls, NEW l, Step(c, l), part' = part,
         l.pc \in {"join_save", "promote_save", "block_save", "transfer_new"},
         l.id \in Ids, Present(l.id), Real(l.row), Whose(l.row) = Whose(part[l.id])
  PROVE  Careful(c)
  <1>1. l.pc \in WithCopy \ WithList /\ ClaimOf(l)
    BY Pcs DEF WithList, WithClaim, ClaimOf
  <1>2. QED
    BY <1>1, CarefulCopy DEF Step

LEMMA StepFields ==
  ASSUME NEW l \in Local, NEW pc, NEW i, NEW x
  PROVE  LET m == [l EXCEPT !.pc = pc, !.id = i, !.row = x]
             n == [l EXCEPT !.pc = pc, !.row = x] IN
         /\ m.pc = pc /\ m.id = i /\ m.row = x
         /\ n.pc = pc /\ n.id = l.id /\ n.row = x
  BY DEF Local

LEMMA RoleSame ==
  ASSUME NEW row \in Row, Real(row), NEW s
  PROVE  /\ Real([row EXCEPT !.role = s])
         /\ Whose([row EXCEPT !.role = s]) = Whose(row)
  BY DEF Real, Whose, Row

LEMMA FindParticipantCareful ==
  ASSUME IInv, OwnersInv, NEW c \in Calls, FindParticipant(c)
  PROVE  Careful(c)
  <1>1. part' = part
    BY DEF FindParticipant
  <1>2. CASE Goto(c, "join_create")
    BY <1>1, <1>2, CarefulGoto DEF WithRow, WithClaim, WithList
  <1>3. ASSUME NEW i \in RowsOf(at[c].room, at[c].user),
               Step(c, [at[c] EXCEPT !.pc = "join_save", !.id = i,
                          !.row = [part[i] EXCEPT !.status = JoinStatus(at[c].snap, at[c].user)]])
        PROVE  Careful(c)
    <2> DEFINE x == [part[i] EXCEPT !.status = JoinStatus(at[c].snap, at[c].user)]
               l == [at[c] EXCEPT !.pc = "join_save", !.id = i, !.row = x]
    <2>1. at[c] \in Local /\ i \in Ids /\ Present(i) /\ part[i] \in Row
      <3>1. i \in Ids /\ Present(i) /\ at[c] \in Local
        BY Facts DEF RowsOf
      <3>2. QED
        BY <3>1, PresentRow
    <2>2. JoinStatus(at[c].snap, at[c].user) \in Statuses \ {"none", "deleted"}
      BY DEF JoinStatus, Statuses
    <2>3. Real(x) /\ Whose(x) = Whose(part[i])
      BY <2>1, <2>2, StatusSame
    <2>4. Step(c, l)
      BY <1>3
    <2> HIDE DEF x
    <2>5. l.pc = "join_save" /\ l.id = i /\ l.row = x
      BY <2>1, StepFields
    <2> HIDE DEF l
    <2>6. QED
      BY <1>1, <2>1, <2>3, <2>4, <2>5, StepCopy
  <1>4. QED
    BY <1>2, <1>3 DEF FindParticipant

LEMMA FindNewHostCareful ==
  ASSUME IInv, NEW c \in Calls, FindNewHost(c)
  PROVE  Careful(c)
  <1>1. PICK i \in Active(at[c].room) :
           Step(c, [at[c] EXCEPT !.pc = "promote_save", !.id = i,
                                 !.row = [part[i] EXCEPT !.role = "host"]])
    BY DEF FindNewHost
  <1> DEFINE x == [part[i] EXCEPT !.role = "host"]
             l == [at[c] EXCEPT !.pc = "promote_save", !.id = i, !.row = x]
  <1>2. i \in Ids /\ Present(i) /\ at[c] \in Local /\ part' = part
    BY Facts DEF Active, Present, FindNewHost
  <1>3. part[i] \in Row /\ Real(part[i])
    BY <1>2, PresentRow
  <1>4. Real(x) /\ Whose(x) = Whose(part[i])
    BY <1>3, RoleSame
  <1>5. Step(c, l)
    BY <1>1
  <1> HIDE DEF x
  <1>6. l.pc = "promote_save" /\ l.id = i /\ l.row = x
    BY <1>2, StepFields
  <1> HIDE DEF l
  <1>7. QED
    BY <1>2, <1>4, <1>5, <1>6, StepCopy

LEMMA FindOldHostCareful ==
  ASSUME IInv, NEW c \in Calls, FindOldHost(c)
  PROVE  Careful(c)
  <1>1. PICK i \in RowsOf(at[c].room, at[c].user) :
           Step(c, [at[c] EXCEPT !.pc = "transfer_new", !.id = i,
                                 !.row = [part[i] EXCEPT !.role = "participant"]])
    BY DEF FindOldHost
  <1> DEFINE x == [part[i] EXCEPT !.role = "participant"]
             l == [at[c] EXCEPT !.pc = "transfer_new", !.id = i, !.row = x]
  <1>2. i \in Ids /\ Present(i) /\ at[c] \in Local /\ part' = part
    BY Facts DEF RowsOf, FindOldHost
  <1>3. part[i] \in Row /\ Real(part[i])
    BY <1>2, PresentRow
  <1>4. Real(x) /\ Whose(x) = Whose(part[i])
    BY <1>3, RoleSame
  <1>5. Step(c, l)
    BY <1>1
  <1> HIDE DEF x
  <1>6. l.pc = "transfer_new" /\ l.id = i /\ l.row = x
    BY <1>2, StepFields
  <1> HIDE DEF l
  <1>7. QED
    BY <1>2, <1>4, <1>5, <1>6, StepCopy

LEMMA FindBlockedCareful ==
  ASSUME IInv, NEW c \in Calls, FindBlocked(c)
  PROVE  Careful(c)
  <1> DEFINE i == at[c].id
             x == [part[i] EXCEPT !.status = "denied", !.removed = TRUE]
             l == [at[c] EXCEPT !.pc = "block_save", !.row = x]
  <1>1. i \in Ids /\ Present(i) /\ at[c] \in Local /\ part' = part
    BY Facts DEF FindBlocked, Call, WithId
  <1>2. part[i] \in Row
    BY <1>1, PresentRow
  <1>3. Real(x) /\ Whose(x) = Whose(part[i])
    BY <1>2 DEF Row, Real, Whose
  <1>4. Step(c, l)
    BY DEF FindBlocked
  <1> HIDE DEF x
  <1>5. l.pc = "block_save" /\ l.id = i /\ l.row = x
    BY <1>1, StepFields
  <1> HIDE DEF l
  <1>6. QED
    BY <1>1, <1>3, <1>4, <1>5, StepCopy

\* The accepted row is kept while the room is read.
LEMMA FindRoomCareful ==
  ASSUME IInv, OwnersInv, ClaimsInv, NEW c \in Calls, FindRoom(c)
  PROVE  Careful(c)
  <1> DEFINE s == rooms[at[c].room]
             l == [at[c] EXCEPT !.pc = "accept_save", !.snap = s]
  <1>1. at[c].pc = "accept_room" /\ at[c] \in Local /\ part' = part /\ ClaimOf(at[c])
    BY Facts DEF FindRoom, ClaimsInv
  <1>2. at' = [at EXCEPT ![c] = l]
    BY DEF FindRoom, Step
  <1> HIDE DEF s
  <1>3. /\ l.pc = "accept_save" /\ l.id = at[c].id /\ l.row = at[c].row
        /\ l.room = at[c].room /\ l.user = at[c].user
    BY <1>1 DEF Local
  <1> HIDE DEF l
  <1>4. ClaimOf(l) /\ Holds(l) \subseteq Holds(at[c])
    BY <1>1, <1>3 DEF ClaimOf, Holds, WithClaim, WithList, WithRow
  <1>5. QED
    BY <1>1, <1>2, <1>4, HoldsLess DEF Careful

\* Besides the old host's row the new host's is held.
LEMMA FindNextHostCareful ==
  ASSUME IInv, OwnersInv, NEW c \in Calls, FindNextHost(c)
  PROVE  Careful(c)
  <1>1. PICK i \in RowsOf(at[c].room, at[c].other) :
           Step(c, [at[c] EXCEPT !.pc = "transfer_demote",
                           !.list = {[id |-> i, row |-> [part[i] EXCEPT !.role = "host"]]}])
    BY DEF FindNextHost
  <1> DEFINE x == [part[i] EXCEPT !.role = "host"]
             z == [id |-> i, row |-> x]
             l == [at[c] EXCEPT !.pc = "transfer_demote", !.list = {z}]
  <1>2. i \in Ids /\ Present(i) /\ at[c] \in Local /\ part' = part /\ at[c].pc = "transfer_new"
    BY Facts DEF RowsOf, FindNextHost
  <1>3. part[i] \in Row /\ Real(part[i])
    BY <1>2, PresentRow
  <1>4. Real(x) /\ Whose(x) = Whose(part[i])
    BY <1>3, RoleSame
  <1>5. at' = [at EXCEPT ![c] = l]
    BY <1>1 DEF Step
  <1> HIDE DEF x
  <1>6. z.id = i /\ z.row = x
    OBVIOUS
  <1>7. Copied(c, z)
    BY <1>2, <1>4, <1>6 DEF Copied
  <1> HIDE DEF z
  <1>8. l.pc = "transfer_demote" /\ l.id = at[c].id /\ l.row = at[c].row /\ l.list = {z}
    BY <1>2 DEF Local
  <1> HIDE DEF l
  <1>9. ASSUME NEW y \in Holds(l) PROVE y = z \/ y \in Holds(at[c])
    BY <1>2, <1>8 DEF Holds, WithRow
  <1>10. \A y \in Holds(l) : Copied(c, y)
    <2>1. PICK own \in [Ids -> Places] : OwnedBy(own)
      BY DEF OwnersInv
    <2>2. \A y \in Holds(at[c]) : Copied(c, y)
      BY <2>1 DEF OwnedBy, Copied
    <2>3. QED
      BY <1>7, <1>9, <2>2
  <1>11. ClaimOf(l)
    BY <1>8 DEF ClaimOf, WithClaim
  <1>12. QED
    BY <1>2, <1>5, <1>10, <1>11 DEF Careful

LEMMA ListActiveCareful ==
  ASSUME IInv, NEW c \in Calls, ListActive(c)
  PROVE  Careful(c)
  <1> DEFINE s == {[id |-> i, row |-> LeftRow(part[i])] : i \in Active(at[c].room)}
             l == [at[c] EXCEPT !.pc = "end_room", !.list = s]
  <1>1. at[c] \in Local /\ at' = [at EXCEPT ![c] = l] /\ part' = part
    BY Facts DEF ListActive, Step
  <1>2. ASSUME NEW y \in s PROVE Copied(c, y)
    <2>1. PICK i \in Active(at[c].room) : y = [id |-> i, row |-> LeftRow(part[i])]
      BY <1>2
    <2>2. y.id = i /\ y.row = LeftRow(part[i])
      BY <2>1
    <2>3. i \in Ids /\ Present(i)
      BY DEF Active, Present
    <2>4. part[i] \in Row
      BY <2>3, PresentRow
    <2>5. Real(LeftRow(part[i])) /\ Whose(LeftRow(part[i])) = Whose(part[i])
      BY <2>4, LeftSame
    <2>6. QED
      BY <2>2, <2>3, <2>5 DEF Copied
  <1> HIDE DEF s
  <1>3. l.pc = "end_room" /\ l.list = s
    BY <1>1 DEF Local
  <1> HIDE DEF l
  <1>4. ClaimOf(l) /\ Holds(l) \subseteq s
    BY <1>3 DEF ClaimOf, Holds, WithClaim, WithRow
  <1>5. QED
    BY <1>1, <1>2, <1>4 DEF Careful

-----------------------------------------------------------------------------
(* Statements that write rows *)

LEMMA SavesCopy ==
  ASSUME NEW c \in Calls, NEW y \in Holds(at[c]), y.id \in Ids, Save(y.id, y.row)
  PROVE  Writes(c)
  BY DEF Save, Writes, Written

\* The copy that a call has under its id.
LEMMA SavesRow ==
  ASSUME IInv, NEW c \in Calls, at[c].pc \in WithRow \union WithClaim,
         Save(at[c].id, at[c].row)
  PROVE  Writes(c)
  <1>1. PICK y \in Holds(at[c]) : y.id = at[c].id /\ y.row = at[c].row
    BY HeldRowIn
  <1>2. at[c].id \in Ids
    BY Facts DEF Call, WithId
  <1>3. QED
    BY <1>1, <1>2, SavesCopy

LEMMA SaveParticipantCareful ==
  ASSUME IInv, OwnersInv, NEW c \in Calls, SaveParticipant(c)
  PROVE  Careful(c)
  <1>1. at[c].pc \in WithRow /\ at[c].pc # "transfer_new"
    BY DEF SaveParticipant, WithRow
  <1>2. Writes(c)
    BY <1>1, SavesRow DEF SaveParticipant
  <1>3. AfterSave(at[c]) \in {"join_count", "idle", "leave_count", "leave_check", "promote_room",
                              "transfer_promote"}
    BY <1>1 DEF WithRow, AfterSave, AfterJoin
  <1>4. AfterSave(at[c]) = "transfer_promote" => at[c].pc = "transfer_demote"
    BY <1>1 DEF WithRow, AfterSave, AfterJoin
  <1>5. Goto(c, AfterSave(at[c]))
    BY DEF SaveParticipant
  <1> DEFINE pc == AfterSave(at[c])
  <1> HIDE DEF pc
  <1>6. /\ pc \in WithRow => at[c].pc \in WithRow
        /\ pc \in WithList => at[c].pc \in WithList
        /\ pc \notin WithClaim
    BY <1>1, <1>3, <1>4 DEF WithRow, WithList, WithClaim, pc
  <1>7. QED
    BY <1>2, <1>5, <1>6, CarefulGoto DEF pc

LEMMA PromoteCareful ==
  ASSUME IInv, OwnersInv, NEW c \in Calls, Promote(c)
  PROVE  Careful(c)
  <1>1. at[c].pc = "transfer_promote" /\ Goto(c, "transfer_host")
    BY DEF Promote
  <1>2. PICK y \in at[c].list : Save(y.id, y.row)
    BY DEF Promote
  <1>3. at[c].list \in SUBSET Copy
    BY Facts DEF Local
  <1>4. y \in Holds(at[c]) /\ y.id \in Ids
    BY <1>1, <1>2, <1>3 DEF Holds, WithList, Copy
  <1>5. Writes(c)
    BY <1>2, <1>4, SavesCopy
  <1>6. QED
    BY <1>1, <1>5, CarefulGoto DEF WithRow, WithList, WithClaim

LEMMA MarkLeftCareful ==
  ASSUME IInv, OwnersInv, NEW c \in Calls, MarkLeft(c)
  PROVE  Careful(c)
  <1>1. at[c] \in Local /\ at[c].pc = "end_rows" /\ at[c].list \in SUBSET Copy
    BY Facts DEF MarkLeft, Local
  <1>2. PICK x \in at[c].list :
           /\ Save(x.id, x.row)
           /\ Done(c) \/ Step(c, [at[c] EXCEPT !.list = @ \ {x}])
    BY DEF MarkLeft
  <1>3. x \in Holds(at[c]) /\ x.id \in Ids
    BY <1>1, <1>2 DEF Holds, WithList, Copy
  <1>4. Writes(c)
    BY <1>2, <1>3, SavesCopy
  <1>5. CASE Done(c)
    BY <1>4, <1>5, CarefulDone
  <1>6. CASE Step(c, [at[c] EXCEPT !.list = @ \ {x}])
    <2> DEFINE s == at[c].list \ {x}
               l == [at[c] EXCEPT !.list = s]
    <2>1. at' = [at EXCEPT ![c] = l] /\ s \subseteq at[c].list
      BY <1>6 DEF Step
    <2> HIDE DEF s
    <2>2. l.pc = "end_rows" /\ l.list = s
      BY <1>1 DEF Local
    <2> HIDE DEF l
    <2>3. Holds(l) \subseteq Holds(at[c]) /\ ClaimOf(l)
      BY <1>1, <2>1, <2>2 DEF Holds, ClaimOf, WithRow, WithClaim
    <2>4. QED
      BY <1>4, <2>1, <2>3, HoldsLess DEF Careful
  <1>7. QED
    BY <1>2, <1>5, <1>6

LEMMA AcceptCareful ==
  ASSUME IInv, NEW c \in Calls, Accept(c)
  PROVE  Careful(c)
  <1>1. at[c] \in Local /\ at[c].pc = "accept_save"
    BY Facts DEF Accept
  <1>2. Writes(c)
    BY <1>1, SavesRow DEF Accept, WithClaim
  <1>3. CASE Done(c)
    BY <1>2, <1>3, CarefulDone
  <1>4. CASE Step(c, [at[c] EXCEPT !.pc = "save_room", !.snap.count = @ + 1])
    <2> DEFINE l == [at[c] EXCEPT !.pc = "save_room", !.snap.count = @ + 1]
    <2>1. l.pc = "save_room" /\ at' = [at EXCEPT ![c] = l]
      BY <1>1, <1>4 DEF Local, Step
    <2> HIDE DEF l
    <2>2. l.pc \notin WithCopy
      BY <2>1, Pcs
    <2>3. QED
      BY <1>2, <2>1, <2>2, CarefulBare
  <1>5. QED
    BY <1>3, <1>4 DEF Accept

\* Statements that write a row as it is in the table, but for its status, or delete it.
LEMMA RowOfIdCareful ==
  ASSUME IInv, OwnersInv, NEW c \in Calls, MarkAsJoined(c) \/ RemoveRow(c) \/ DeleteRow(c)
  PROVE  Careful(c)
  <1> DEFINE i == at[c].id
  <1>1. i \in Ids
    BY Facts DEF MarkAsJoined, RemoveRow, DeleteRow, Call, WithId
  <1>2. part' = part \/ Writes(c)
    <2>1. CASE ~Present(i)
      BY <2>1 DEF MarkAsJoined, RemoveRow, DeleteRow
    <2>2. CASE Present(i)
      <3>1. part[i] \in Row
        BY <1>1, <2>2, PresentRow
      <3>2. CASE MarkAsJoined(c)
        <4>1. part' = [part EXCEPT ![i] = [part[i] EXCEPT !.status = "joined"]]
          BY <2>2, <3>2 DEF MarkAsJoined
        <4>2. /\ Real([part[i] EXCEPT !.status = "joined"])
              /\ Whose([part[i] EXCEPT !.status = "joined"]) = Whose(part[i])
          BY <3>1, StatusSame DEF Statuses
        <4>3. QED
          BY <1>1, <2>2, <4>1, <4>2 DEF Writes, Written
      <3>3. CASE RemoveRow(c)
        <4> DEFINE x == [LeftRow(part[i]) EXCEPT !.status = "removed", !.removed = TRUE]
        <4>1. part' = [part EXCEPT ![i] = x]
          BY <2>2, <3>3 DEF RemoveRow
        <4>2. Real(x) /\ Whose(x) = Whose(part[i])
          BY <3>1 DEF Real, Whose, LeftRow, Row
        <4> HIDE DEF x
        <4>3. QED
          BY <1>1, <2>2, <4>1, <4>2 DEF Writes, Written
      <3>4. CASE DeleteRow(c)
        BY <1>1, <2>2, <3>4 DEF DeleteRow, Writes, Written
      <3>5. QED
        BY <3>2, <3>3, <3>4
    <2>3. QED
      BY <2>1, <2>2
  <1>3. CASE DeleteRow(c)
    BY <1>2, <1>3, CarefulDone DEF DeleteRow
  <1>4. CASE \E pc \in {"admit_count", "remove_count"} : Goto(c, pc)
    BY <1>2, <1>4, CarefulGoto DEF WithRow, WithList, WithClaim
  <1>5. QED
    BY <1>3, <1>4 DEF MarkAsJoined, RemoveRow

\* A row for a user or for an e-mail address that has none.
LEMMA NewRow ==
  ASSUME IInv, NEW c \in Calls, NEW row, Insert(row), Real(row), Whose(row) \in Rooms \X Users
  PROVE  Writes(c)
  <1>1. PICK i \in Ids : part[i].status = "none" /\ Save(i, row)
    BY DEF Insert
  <1>2. part' = [part EXCEPT ![i] = row]
    BY <1>1 DEF Save
  <1>3. QED
    BY <1>1, <1>2 DEF Writes, Written

LEMMA CreateCareful ==
  ASSUME IInv, OwnersInv, NEW c \in Calls, CreateParticipant(c) \/ CreateInvitation(c)
  PROVE  Careful(c)
  <1>1. at[c].room \in Rooms /\ at[c].user \in Users
    BY Facts DEF Call, CreateParticipant, CreateInvitation
  <1>2. CASE CreateParticipant(c)
    <2> DEFINE row == NewParticipant(at[c].room, at[c].user,
                                     IF at[c].snap.host = at[c].user THEN "host" ELSE "participant",
                                     JoinStatus(at[c].snap, at[c].user))
    <2>1. Insert(row)
      BY <1>2 DEF CreateParticipant
    <2>2. /\ row.room = at[c].room /\ row.user = at[c].user
          /\ row.status = JoinStatus(at[c].snap, at[c].user)
      BY DEF NewParticipant, NoRow
    <2> HIDE DEF row
    <2>3. Real(row) /\ Whose(row) \in Rooms \X Users
      BY <1>1, <2>2, RoomNames DEF JoinStatus, Real, Whose
    <2>4. Writes(c)
      BY <2>1, <2>3, NewRow
    <2>5. PICK pc \in {"join_count", "idle"} : Goto(c, pc)
      BY <1>2 DEF CreateParticipant, AfterJoin
    <2>6. QED
      BY <2>4, <2>5, CarefulGoto DEF WithRow, WithList, WithClaim
  <1>3. CASE CreateInvitation(c)
    <2> DEFINE row == [NewParticipant(at[c].room, NoUser, "participant", "invited")
                         EXCEPT !.email = at[c].other]
    <2>1. Insert(row)
      BY <1>3 DEF CreateInvitation
    <2>2. at[c].other \in Users
      BY <1>3, Facts DEF CreateInvitation, Call, WithOther
    <2>3. /\ row.room = at[c].room /\ row.user = NoUser /\ row.email = at[c].other
          /\ row.status = "invited"
      BY DEF NewParticipant, NoRow
    <2> HIDE DEF row
    <2>4. Real(row) /\ Whose(row) \in Rooms \X Users
      BY <1>1, <2>2, <2>3 DEF Real, Whose
    <2>5. Writes(c)
      BY <2>1, <2>4, NewRow
    <2>6. QED
      BY <1>3, <2>5, CarefulDone DEF CreateInvitation
  <1>4. QED
    BY <1>2, <1>3

LEMMA StatementCareful ==
  ASSUME AInv, NEW c \in Calls, Statement(c)
  PROVE  Careful(c)
  BY QuietCareful, FindParticipantCareful, FindNewHostCareful, FindOldHostCareful,
     FindBlockedCareful, FindRoomCareful, FindNextHostCareful, ListActiveCareful,
     SaveParticipantCareful, PromoteCareful, MarkLeftCareful, AcceptCareful, RowOfIdCareful,
     CreateCareful
     DEF Statement, AInv

-----------------------------------------------------------------------------
(* Every step *)

LEMMA OwnersInit == Init => OwnersInv /\ ClaimsInv
  <1> SUFFICES ASSUME Init PROVE OwnersInv /\ ClaimsInv
    OBVIOUS
  <1>1. PICK h \in [Rooms -> Users], ty \in [Rooms -> Types], own \in [Rooms -> Ids] :
           Init!(h, ty, own)
    BY DEF Init
  <1>2. ASSUME NEW c \in Calls PROVE Holds(at[c]) = {} /\ ClaimOf(at[c])
    <2>1. at[c].pc \notin WithCopy
      BY <1>1, Pcs DEF Idle
    <2>2. QED
      BY <2>1, HoldsNothing
  <1>3. ASSUME NEW i \in Ids, Present(i) PROVE Whose(part[i]) \in Rooms \X Users
    <2>1. PICK r \in Rooms : part[i] = NewParticipant(r, h[r], "host", "invited")
      BY <1>1, <1>3 DEF Present, NoRow
    <2>2. part[i].room = r /\ part[i].user = h[r] /\ h[r] \in Users
      BY <2>1 DEF NewParticipant, NoRow
    <2>3. QED
      BY <2>2, RoomNames DEF Whose
  <1>4. OwnersInv
    <2> DEFINE whose == [i \in Ids |-> IF Present(i) THEN Whose(part[i]) ELSE <<NoRoom, NoUser>>]
    <2>1. whose \in [Ids -> Places]
      BY <1>3 DEF Places
    <2>2. ASSUME NEW i \in Ids, part[i].status # "none" PROVE Present(i)
      BY <1>1, <2>2 DEF Present, NewParticipant, NoRow
    <2>3. OwnedBy(whose)
      BY <1>2, <1>3, <2>2 DEF OwnedBy
    <2>4. QED
      BY <2>1, <2>3 DEF OwnersInv
  <1>5. QED
    BY <1>2, <1>4 DEF ClaimsInv

LEMMA AInvStep == AInv /\ [Next]_vars => AInv'
  <1> SUFFICES ASSUME AInv, [Next]_vars PROVE AInv'
    OBVIOUS
  <1>1. IInv'
    BY InvStep DEF AInv
  <1>2. ASSUME NEW c \in Calls, NewCall(c) \/ Statement(c) \/ Return(c) PROVE Careful(c)
    BY <1>2, NewCallCareful, StatementCareful, QuietCareful DEF AInv
  <1>3. ASSUME UNCHANGED <<part, at>> PROVE OwnersInv' /\ ClaimsInv'
    BY <1>3 DEF AInv, OwnersInv, OwnedBy, ClaimsInv, Present
  <1>4. OwnersInv' /\ ClaimsInv'
    <2>1. CASE \E c \in Calls : NewCall(c) \/ Statement(c) \/ Return(c)
      BY <1>2, <2>1, OwnersKept, ClaimsKept DEF AInv
    <2>2. CASE UNCHANGED <<part, at>>
      BY <1>3, <2>2
    <2>3. QED
      BY <2>1, <2>2 DEF Next, vars, Quiescent, GetMyParticipantStatus
  <1>5. QED
    BY <1>1, <1>4 DEF AInv

LEMMA AInvariance == Spec => []AInv
  <1>1. Init => AInv
    BY InvInit, OwnersInit DEF AInv
  <1>2. QED
    BY <1>1, AInvStep, PTL DEF Spec

\* Whose the row written is: of the person whose row it was, if it was somebody's.
OfOne(x, i, row) ==
  /\ x \in Rooms \X Users
  /\ Present(i) => Whose(part[i]) = x
  /\ Real(row) => Whose(row) = x

LEMMA WrittenOfOne ==
  ASSUME AInv, NEW c \in Calls, NEW i \in Ids, NEW row, part' = [part EXCEPT ![i] = row],
         Written(c, i, row)
  PROVE  \E x : OfOne(x, i, row)
  <1>1. PICK own \in [Ids -> Places] : OwnedBy(own)
    BY DEF AInv, OwnersInv
  <1>2. PICK new \in [Ids -> Places] : Extends(new, own, i, row)
    BY <1>1, WriteOwned DEF AInv
  <1>3. Present(i) => Whose(part[i]) = new[i]
    BY <1>1, <1>2 DEF OwnedBy, Extends, Present
  <1>4. OfOne(new[i], i, row)
    BY <1>2, <1>3 DEF Extends, OfOne
  <1>5. QED
    BY <1>4

LEMMA RecordKept ==
  ASSUME AInv, NEW c \in Calls, Careful(c), NEW k \in Ids, Present(k), Present(k)'
  PROVE  Whose(part'[k]) = Whose(part[k])
  <1>1. CASE part' = part
    BY <1>1
  <1>2. CASE Writes(c)
    <2>1. PICK i, row : i \in Ids /\ part' = [part EXCEPT ![i] = row] /\ Written(c, i, row)
      BY <1>2 DEF Writes
    <2>2. PICK x : OfOne(x, i, row)
      BY <2>1, WrittenOfOne
    <2>3. part \in [Ids -> Row \union {NoRow, Gone}]
      BY DEF AInv, IInv, PartInv
    <2>4. CASE k = i
      BY <2>1, <2>2, <2>3, <2>4 DEF OfOne, Present, Real
    <2>5. CASE k # i
      BY <2>1, <2>3, <2>5
    <2>6. QED
      BY <2>4, <2>5
  <1>3. QED
    BY <1>1, <1>2 DEF Careful

\* The record of a participant stays that of one person in one room, whatever stale copies
\* of it are saved. (OwnersInv says so of a record that comes back after its deletion, too.)
THEOREM RecordsStay == Spec => RecordsKeepTheirPerson
  <1>1. ASSUME AInv, [Next]_vars
        PROVE  \A i \in Ids : Present(i) /\ Present(i)' => Whose(part'[i]) = Whose(part[i])
    <2>1. CASE \E c \in Calls : NewCall(c) \/ Statement(c) \/ Return(c)
      <3>1. PICK c \in Calls : Careful(c)
        BY <1>1, <2>1, NewCallCareful, StatementCareful, QuietCareful DEF AInv
      <3>2. QED
        BY <1>1, <3>1, RecordKept
    <2>2. CASE part' = part
      BY <2>2
    <2>3. QED
      BY <1>1, <2>1, <2>2 DEF Next, vars, Quiescent, GetMyParticipantStatus
  <1>2. QED
    BY <1>1, AInvariance, PTL DEF Spec, RecordsKeepTheirPerson

-----------------------------------------------------------------------------
(* The refinement *)

\* A write brings in or takes out the person whose row it is, and nobody else.
LEMMA OneAttends ==
  ASSUME AInv, NEW i \in Ids, NEW row, part' = [part EXCEPT ![i] = row],
         NEW x, OfOne(x, i, row)
  PROVE  Attending' = Attending \union {x} \/ Attending' = Attending \ {x}
  <1>1. part \in [Ids -> Row \union {NoRow, Gone}]
    BY DEF AInv, IInv, PartInv
  <1>2. part'[i] = row /\ \A k \in Ids : k # i => part'[k] = part[k]
    BY <1>1
  <1>3. ASSUME NEW r \in Rooms, NEW u \in Users, <<r, u>> # x, NEW k \in Ids
        PROVE  (part[k].room = r /\ part[k].user = u /\ part[k].status = "joined")
               <=> (part'[k].room = r /\ part'[k].user = u /\ part'[k].status = "joined")
    <2>1. CASE k # i
      BY <1>2, <2>1
    <2>2. CASE k = i
      <3>1. ~(part[k].room = r /\ part[k].user = u /\ part[k].status = "joined")
        BY <1>3, <2>2, RoomNames DEF OfOne, Whose, Present
      <3>2. ~(row.room = r /\ row.user = u /\ row.status = "joined")
        BY <1>3, RoomNames DEF OfOne, Whose, Real
      <3>3. QED
        BY <1>2, <2>2, <3>1, <3>2
    <2>3. QED
      BY <2>1, <2>2
  <1>4. ASSUME NEW z \in Rooms \X Users, z # x PROVE z \in Attending <=> z \in Attending'
    <2>1. PICK r \in Rooms, u \in Users : z = <<r, u>>
      OBVIOUS
    <2>2. Inside(r, u) <=> Inside(r, u)'
      BY <1>3, <1>4, <2>1 DEF Inside, RowsOf, Present
    <2>3. QED
      BY <2>1, <2>2 DEF Attending
  <1>5. Attending \subseteq Rooms \X Users /\ Attending' \subseteq Rooms \X Users
    BY DEF Attending
  <1>6. x \in Rooms \X Users
    BY DEF OfOne
  <1>7. QED
    BY <1>4, <1>5, <1>6

LEMMA WhoIsLetIn ==
  ASSUME NEW r \in Rooms, NEW u \in Users
  PROVE  /\ <<r, u>> \in Guests <=> Known(r, u, entitled)
         /\ <<r, u>> \in Invitees <=> Asked(r, u, entitled)
         /\ <<r, u>> \in Attending <=> Inside(r, u)
  BY DEF Guests, CameIn, LetIn, LetInElsewhere, Known, Invitees, Expected, Asked, Attending

\* What RoomAccess sees stays as it is.
Unseen == UNCHANGED <<Kinds, Hosts, Invitees, Guests, Attending, tokens>>

LEMMA SameGuests == ASSUME entitled' = entitled PROVE Invitees' = Invitees /\ Guests' = Guests
  BY DEF Invitees, Expected, Guests, CameIn, LetIn, LetInElsewhere

LEMMA SameHosts == ASSUME rooms' = rooms PROVE Kinds' = Kinds /\ Hosts' = Hosts
  BY DEF Kinds, Hosts

LEMMA SameAttending == ASSUME part' = part PROVE Attending' = Attending
  BY DEF Attending, Inside, RowsOf, Present

LEMMA QuietUnseen == ASSUME UNCHANGED <<rooms, part, tokens, entitled>> PROVE Unseen
  BY SameGuests, SameHosts, SameAttending DEF Unseen

\* A row is saved: somebody who has been let in comes back, or somebody leaves.
LEMMA RowSeen ==
  ASSUME AInv, IInv', NEW c \in Calls, Writes(c), UNCHANGED <<rooms, tokens, entitled>>
  PROVE  Access!Next
  <1>1. PICK i, row : i \in Ids /\ part' = [part EXCEPT ![i] = row] /\ Written(c, i, row)
    BY DEF Writes
  <1>2. PICK x : OfOne(x, i, row)
    BY <1>1, WrittenOfOne
  <1>3. PICK r \in Rooms, u \in Users : x = <<r, u>>
    BY <1>2 DEF OfOne
  <1>4. UNCHANGED <<Kinds, Hosts, Invitees, Guests, tokens>>
    BY SameGuests, SameHosts
  <1>5. CASE Attending' = Attending \ {x}
    BY <1>3, <1>4, <1>5 DEF Access!Next, Access!Leave
  <1>6. CASE Attending' = Attending \union {x}
    <2>1. x \in Attending'
      BY <1>6
    <2>2. Inside(r, u)'
      BY <1>3, <2>1 DEF Attending
    <2>3. PICK k \in Ids : /\ Present(k)' /\ part'[k].room = r /\ part'[k].user = u
                           /\ part'[k].status = "joined"
      BY <2>2 DEF Inside, RowsOf
    <2>4. GoodRow(part'[k], entitled, Kinds)
      BY <2>3, <1>4 DEF IInv, PartInv
    <2>5. Known(r, u, entitled)
      BY <2>3, <2>4, RoomNames DEF GoodRow, GoodUser
    <2>6. x \in Guests
      BY <1>3, <2>5, WhoIsLetIn
    <2>7. QED
      BY <1>3, <1>4, <1>6, <2>6 DEF Access!Next, Access!Enter
  <1>7. QED
    BY <1>1, <1>2, <1>5, <1>6, OneAttends

\* A room is saved: somebody who has been let in is its host, most often who was it before.
LEMMA RoomSeen ==
  ASSUME IInv, IInv', NEW r \in Rooms, NEW room, rooms' = [rooms EXCEPT ![r] = room],
         Kinds' = Kinds, UNCHANGED <<part, tokens, entitled>>
  PROVE  Access!Next
  <1>1. /\ rooms' \in [Rooms -> Room] /\ GoodRoom(r, rooms'[r], entitled, Kinds)
        /\ rooms \in [Rooms -> Room]
    BY DEF IInv, RoomsInv
  <1> DEFINE u == rooms'[r].host
  <1>2. u \in Users
    BY <1>1 DEF Room
  <1>3. Hosts' = [Hosts EXCEPT ![r] = u]
    BY <1>1 DEF Hosts
  <1>4. Known(r, u, entitled) /\ (Kinds[r] = "public" \/ Asked(r, u, entitled))
    BY <1>1 DEF GoodRoom
  <1> HIDE DEF u
  <1>5. <<r, u>> \in Guests /\ (Kinds[r] = "public" \/ <<r, u>> \in Invitees)
    BY <1>2, <1>4, WhoIsLetIn
  <1>6. UNCHANGED <<Kinds, Invitees, Guests, Attending, tokens>>
    BY SameGuests, SameAttending
  <1>7. Access!MakeHost(r, u)
    BY <1>3, <1>5, <1>6 DEF Access!MakeHost, Access!MayBeLetIn
  <1>8. QED
    BY <1>2, <1>7 DEF Access!Next

LEMMA RoomsSeen ==
  ASSUME IInv, IInv', NEW c \in Calls,
         SaveRoom(c) \/ SaveEnded(c) \/ UpdateHostID(c) \/ AutoEnd(c) \/ LeaveCount(c)
         \/ CountAdmitted(c) \/ CountRemoved(c)
  PROVE  Access!Next
  <1> DEFINE r == at[c].room
  <1>1. r \in Rooms
    BY Facts DEF Call, SaveRoom, SaveEnded, UpdateHostID, AutoEnd, LeaveCount, CountAdmitted,
                 CountRemoved
  <1>2. UNCHANGED <<part, tokens, entitled>>
    BY DEF SaveRoom, SaveEnded, UpdateHostID, AutoEnd, LeaveCount, CountAdmitted, CountRemoved
  <1>3. rooms \in [Rooms -> Room]
    BY DEF IInv, RoomsInv
  <1>4. \E room : rooms' = [rooms EXCEPT ![r] = room] /\ room.type = rooms[r].type
    <2>1. ASSUME NEW s PROVE [rooms[r] EXCEPT !.status = s].type = rooms[r].type
      BY <1>1, <1>3 DEF Room
    <2>2. ASSUME NEW n PROVE [rooms[r] EXCEPT !.count = n].type = rooms[r].type
      BY <1>1, <1>3 DEF Room
    <2>3. ASSUME NEW u PROVE [rooms[r] EXCEPT !.host = u].type = rooms[r].type
      BY <1>1, <1>3 DEF Room
    <2>4. CASE AutoEnd(c)
      BY <2>1, <2>4 DEF AutoEnd
    <2>5. CASE LeaveCount(c) \/ CountAdmitted(c) \/ CountRemoved(c)
      BY <2>2, <2>5 DEF LeaveCount, CountAdmitted, CountRemoved, AddCount, SubCount
    <2>6. CASE UpdateHostID(c)
      BY <2>3, <2>6 DEF UpdateHostID
    <2>7. CASE SaveRoom(c) \/ SaveEnded(c)
      <3>1. GoodRoom(r, at[c].snap, entitled, Kinds) /\ Update(r, at[c].snap)
        BY <2>7, Facts DEF SaveRoom, SaveEnded, Call, WithSnap
      <3>2. QED
        BY <1>1, <3>1, UpdateGood DEF GoodRoom, Kinds
    <2>8. QED
      BY <2>4, <2>5, <2>6, <2>7
  <1>5. PICK room : rooms' = [rooms EXCEPT ![r] = room] /\ room.type = rooms[r].type
    BY <1>4
  <1>6. Kinds' = Kinds
    BY <1>1, <1>3, <1>5 DEF Kinds
  <1> HIDE DEF r
  <1>7. QED
    BY <1>1, <1>2, <1>5, <1>6, RoomSeen

\* A token is given to somebody who has been let in.
LEMMA TokenSeen ==
  ASSUME IInv, IInv', NEW r \in Rooms, NEW u \in Users, tokens' = tokens \union {<<r, u>>},
         Kinds' = Kinds, Hosts' = Hosts, UNCHANGED <<part, entitled>>
  PROVE  Access!Next
  <1>1. <<r, u>> \in Guests
    <2>1. Known(r, u, entitled)
      BY DEF IInv, TokensInv
    <2>2. QED
      BY <2>1, WhoIsLetIn
  <1>2. UNCHANGED <<Kinds, Hosts, Invitees, Guests, Attending>>
    BY SameGuests, SameAttending
  <1>3. Access!GiveToken(<<r, u>>)
    BY <1>1, <1>2 DEF Access!GiveToken
  <1>4. QED
    BY <1>3 DEF Access!Next

LEMMA CountHostSeen ==
  ASSUME IInv, IInv', NEW c \in Calls, CountHost(c)
  PROVE  Access!Next
  <1>1. at[c].room \in Rooms /\ at[c].user \in Users /\ rooms \in [Rooms -> Room]
    BY Facts DEF CountHost, Call, IInv, RoomsInv
  <1>2. Kinds' = Kinds /\ Hosts' = Hosts
    BY <1>1 DEF CountHost, AddCount, Kinds, Hosts, Room
  <1>3. QED
    BY <1>1, <1>2, TokenSeen DEF CountHost

\* An invitation by e-mail.
LEMMA InvitationSeen ==
  ASSUME IInv, NEW c \in Calls, CreateInvitation(c)
  PROVE  Access!Next
  <1>1. at[c].room \in Rooms /\ at[c].other \in Users
    BY Facts DEF CreateInvitation, Call, WithOther
  <1> DEFINE x == <<at[c].room, at[c].other>>
             row == [NewParticipant(at[c].room, NoUser, "participant", "invited")
                       EXCEPT !.email = at[c].other]
  <1>2. PICK i \in Ids : part[i].status = "none" /\ part' = [part EXCEPT ![i] = row]
    BY DEF CreateInvitation, Insert, Save
  <1>3. row.user = NoUser
    BY DEF NewParticipant, NoRow
  <1> HIDE DEF row
  <1>4. part \in [Ids -> Row \union {NoRow, Gone}]
    BY DEF IInv, PartInv
  <1>5. Attending' = Attending
    <2>1. ASSUME NEW r \in Rooms, NEW u \in Users, NEW k \in Ids
          PROVE  (part[k].room = r /\ part[k].user = u /\ part[k].status = "joined")
                 <=> (part'[k].room = r /\ part'[k].user = u /\ part'[k].status = "joined")
      <3>1. CASE k # i
        BY <1>2, <1>4, <3>1
      <3>2. CASE k = i
        BY <1>2, <1>3, <1>4, <3>2, RoomNames
      <3>3. QED
        BY <3>1, <3>2
    <2>2. ASSUME NEW r \in Rooms, NEW u \in Users PROVE Inside(r, u) <=> Inside(r, u)'
      BY <2>1 DEF Inside, RowsOf, Present
    <2>3. QED
      BY <2>2 DEF Attending
  <1>6. entitled' = entitled \union {<<at[c].room, at[c].other, "invited">>}
    BY DEF CreateInvitation
  <1>7. Guests' = Guests
    BY <1>6 DEF Guests, CameIn, LetIn, LetInElsewhere
  <1>8. Invitees' = Invitees \union {x}
    BY <1>1, <1>6 DEF Invitees, Expected
  <1>9. Kinds' = Kinds /\ Hosts' = Hosts /\ tokens' = tokens
    BY SameHosts DEF CreateInvitation
  <1> HIDE DEF x
  <1>10. Access!Invite(x)
    BY <1>5, <1>7, <1>8, <1>9 DEF Access!Invite
  <1>11. QED
    BY <1>1, <1>10 DEF Access!Next, x

\* Somebody is let in: who is admitted, and who accepts an invitation.
LEMMA LetInSeen ==
  ASSUME AInv, IInv', NEW r \in Rooms, NEW u \in Users, NEW why \in {"admitted", "accepted", "elsewhere"},
         entitled' = entitled \union {<<r, u, why>>},
         NEW c \in Calls, NEW i \in Ids, NEW row, part' = [part EXCEPT ![i] = row],
         Written(c, i, row), row.room = r /\ row.user = u /\ row.status = "joined",
         tokens' \in {tokens, tokens \union {<<r, u>>}}, rooms' = rooms
  PROVE  Access!Next
  <1>1. part' \in [Ids -> Row \union {NoRow, Gone}] /\ part \in [Ids -> Row \union {NoRow, Gone}]
    BY DEF AInv, IInv, PartInv
  <1>2. part'[i] = row /\ Present(i)'
    BY <1>1 DEF Present
  <1>3. PICK x : OfOne(x, i, row)
    BY WrittenOfOne
  <1>4. x = <<r, u>>
    BY <1>3, RoomNames DEF OfOne, Real, Whose
  <1>5. Inside(r, u)'
    BY <1>2 DEF Inside, RowsOf
  <1>6. x \in Attending'
    BY <1>4, <1>5 DEF Attending
  <1>7. Attending' = Attending \union {x}
    BY <1>3, <1>6, OneAttends
  <1>8. Invitees' = Invitees
    BY DEF Invitees, Expected
  <1>9. Guests' = Guests \union {x}
    BY <1>4 DEF Guests, CameIn, LetIn, LetInElsewhere
  <1>10. Kinds' = Kinds /\ Hosts' = Hosts
    BY SameHosts
  <1>11. Kinds[r] = "public" \/ x \in Invitees
    <2>1. GoodRow(row, entitled', Kinds)
      BY <1>2, <1>10 DEF IInv, PartInv
    <2>2. Kinds[r] # "public" => Asked(r, u, entitled')
      BY <2>1, RoomNames DEF GoodRow, GoodUser
    <2>3. Asked(r, u, entitled') => Asked(r, u, entitled)
      BY DEF Asked
    <2>4. QED
      BY <1>4, <2>2, <2>3, WhoIsLetIn
  <1>12. tokens' \in {tokens, tokens \union {x}} /\ x[1] = r
    BY <1>4
  <1>13. Access!LetIn(x)
    BY <1>7, <1>8, <1>9, <1>10, <1>11, <1>12
       DEF Access!LetIn, Access!MayBeLetIn, Access!MayGetToken
  <1>14. QED
    BY <1>4, <1>13 DEF Access!Next

\* Statements that write a row or none, and nothing else that RoomAccess sees.
LEMMA CarefulSeen ==
  ASSUME AInv, IInv', NEW c \in Calls, Careful(c), UNCHANGED <<rooms, tokens, entitled>>
  PROVE  Access!Next \/ Unseen
  BY RowSeen, QuietUnseen DEF Careful

LEMMA MarkAsJoinedSeen ==
  ASSUME AInv, IInv', NEW c \in Calls, MarkAsJoined(c)
  PROVE  Access!Next \/ Unseen
  <1> DEFINE i == at[c].id
             row == [part[i] EXCEPT !.status = "joined"]
             u == part[i].user
             why == Admission(c, i)
  <1>1. i \in Ids /\ rooms' = rooms /\ tokens' = tokens
    BY Facts DEF AInv, MarkAsJoined, Call, WithId
  <1>2. CASE ~Present(i)
    BY <1>1, <1>2, QuietUnseen DEF MarkAsJoined
  <1>3. CASE Present(i)
    <2>1. part[i] \in Row
      BY <1>1, <1>3, PresentRow DEF AInv
    <2>2. part' = [part EXCEPT ![i] = row]
      BY <1>3 DEF MarkAsJoined
    <2>3. /\ row.room = part[i].room /\ row.user = u /\ row.status = "joined"
          /\ part[i].room \in Rooms /\ u \in Users \union {NoUser}
      BY <2>1 DEF Row
    <2>4. Careful(c)
      BY RowOfIdCareful DEF AInv
    <2>5. Real(row) /\ Whose(row) = Whose(part[i])
      BY <2>1, StatusSame DEF Statuses
    <2>6. Written(c, i, row)
      BY <1>3, <2>5 DEF Written
    <2>7. entitled' = entitled \union ({part[i].room} \X ({u} \ {NoUser}) \X {why})
      BY <1>3 DEF MarkAsJoined
    <2>0. why \in {"admitted", "elsewhere"}
      BY DEF Admission
    <2> HIDE DEF row, u, i, why
    <2>8. CASE u = NoUser
      <3>1. entitled' = entitled
        BY <2>7, <2>8
      <3>2. QED
        BY <1>1, <2>4, <3>1, CarefulSeen
    <2>9. CASE u \in Users
      <3>1. {u} \ {NoUser} = {u}
        BY <2>9, RoomNames
      <3>2. entitled' = entitled \union {<<part[i].room, u, why>>}
        BY <2>7, <3>1
      <3>3. QED
        BY <1>1, <2>0, <2>2, <2>3, <2>6, <2>9, <3>2, LetInSeen
    <2>10. QED
      BY <2>3, <2>8, <2>9
  <1>4. QED
    BY <1>2, <1>3

LEMMA AcceptSeen ==
  ASSUME AInv, IInv', NEW c \in Calls, Accept(c)
  PROVE  Access!Next
  <1> DEFINE r == at[c].room
             u == at[c].user
             row == at[c].row
             i == at[c].id
  <1>1. at[c].pc = "accept_save" /\ r \in Rooms /\ u \in Users /\ i \in Ids
    BY Facts DEF AInv, Accept, Call, WithId, WithClaim
  <1>2. row.room = r /\ row.user = u /\ row.status = "joined"
    BY <1>1 DEF AInv, ClaimsInv, ClaimOf, WithClaim
  <1>3. part' = [part EXCEPT ![i] = row]
    BY DEF Accept, Save
  <1>4. Written(c, i, row)
    BY <1>1, HeldRowIn DEF Written, WithClaim
  <1>5. /\ entitled' = entitled \union {<<r, u, "accepted">>}
        /\ tokens' = tokens \union {<<r, u>>} /\ rooms' = rooms
    BY DEF Accept
  <1> HIDE DEF r, u, row, i
  <1>6. QED
    BY <1>1, <1>2, <1>3, <1>4, <1>5, LetInSeen

LEMMA MyStatusSeen ==
  ASSUME IInv, IInv', NEW u \in Users, NEW r \in Rooms, GetMyParticipantStatus(u, r)
  PROVE  Access!Next
  BY SameHosts, TokenSeen DEF GetMyParticipantStatus

\* A new call writes nothing.
LEMMA NewCallSeen ==
  ASSUME NEW c \in Calls, NewCall(c)
  PROVE  Unseen
  <1>1. PICK u \in Users, r \in Rooms : NewCall(c)!(u, r)
    BY DEF NewCall
  <1>2. CASE LiveKitEvent(c, u, r) \/ MemberRequest(c, u, r)
    <2>1. UNCHANGED <<rooms, part, tokens, entitled>>
      BY <1>2, Zenon DEF LiveKitEvent, MemberRequest, StartRoom, EndRoom, ParticipantJoined,
                         LeaveRoom, JoinRoom
    <2>2. QED
      BY <2>1, QuietUnseen
  <1>3. CASE RecordRequest(c, u, r)
    <2>1. UNCHANGED <<rooms, part, tokens, entitled>>
      BY <1>3, Zenon DEF RecordRequest, AdmitParticipant, DenyParticipant, BlockParticipant,
                         RemoveParticipant, HostCall
    <2>2. QED
      BY <2>1, QuietUnseen
  <1>4. CASE HostRequest(c, u, r) \/ InvitationRequest(c, u, r)
    <2>1. UNCHANGED <<rooms, part, tokens, entitled>>
      BY <1>4, Zenon DEF HostRequest, InvitationRequest, TransferHost, InviteUserByEmail,
                         AcceptInvitation, DeclineInvitation
    <2>2. QED
      BY <2>1, QuietUnseen
  <1>5. QED
    BY <1>1, <1>2, <1>3, <1>4

LEMMA StatementSeen ==
  ASSUME AInv, IInv', NEW c \in Calls, Statement(c)
  PROVE  Access!Next \/ Unseen
  <1>1. Careful(c)
    BY StatementCareful
  <1>2. CASE SaveRoom(c) \/ SaveEnded(c) \/ UpdateHostID(c) \/ AutoEnd(c) \/ LeaveCount(c)
             \/ CountAdmitted(c) \/ CountRemoved(c)
    BY <1>2, RoomsSeen DEF AInv
  <1>3. CASE CountHost(c)
    BY <1>3, CountHostSeen DEF AInv
  <1>4. CASE CreateInvitation(c)
    BY <1>4, InvitationSeen DEF AInv
  <1>5. CASE Accept(c)
    BY <1>5, AcceptSeen
  <1>6. CASE MarkAsJoined(c)
    BY <1>6, MarkAsJoinedSeen
  <1>7. CASE \/ SaveParticipant(c) \/ CheckInvited(c) \/ FindParticipant(c)
             \/ CreateParticipant(c) \/ CountActive(c) \/ FindNewHost(c) \/ PromoteInRoom(c)
             \/ ListActive(c) \/ MarkLeft(c) \/ FindWaiting(c) \/ DeleteRow(c)
             \/ FindBlocked(c) \/ RemoveRow(c) \/ FindOldHost(c) \/ FindNextHost(c)
             \/ Promote(c) \/ CheckEmail(c) \/ FindRoom(c)
    <2>1. UNCHANGED <<rooms, tokens, entitled>>
      BY <1>7, Zenon
         DEF SaveParticipant, CheckInvited, FindParticipant, CreateParticipant, CountActive,
             FindNewHost, PromoteInRoom, ListActive, MarkLeft, FindWaiting, DeleteRow,
             FindBlocked, RemoveRow, FindOldHost, FindNextHost, Promote, CheckEmail, FindRoom
    <2>2. QED
      BY <1>1, <2>1, CarefulSeen
  <1>8. QED
    BY <1>2, <1>3, <1>4, <1>5, <1>6, <1>7 DEF Statement

LEMMA AccessInit == Init => Access!Init
  <1> SUFFICES ASSUME Init PROVE Access!Init
    OBVIOUS
  <1>1. PICK h \in [Rooms -> Users], ty \in [Rooms -> Types], own \in [Rooms -> Ids] :
           Init!(h, ty, own)
    BY DEF Init
  <1>2. Kinds = ty /\ Hosts = h
    BY <1>1 DEF Kinds, Hosts
  <1>3. ASSUME NEW r \in Rooms, NEW u \in Users
        PROVE  (CameIn(r, u) <=> u = h[r]) /\ (Expected(r, u) <=> u = h[r])
    BY <1>1 DEF CameIn, LetIn, LetInElsewhere, Expected
  <1>4. Invitees = tokens /\ Guests = tokens
    BY <1>1, <1>3 DEF Invitees, Guests
  <1>5. ASSUME NEW i \in Ids PROVE part[i].status # "joined"
    <2>1. CASE part[i] = NoRow
      BY <2>1 DEF NoRow
    <2>2. CASE \E r \in Rooms : part[i] = NewParticipant(r, h[r], "host", "invited")
      BY <2>2 DEF NewParticipant, NoRow
    <2>3. QED
      BY <1>1, <2>1, <2>2
  <1>6. Attending = {}
    BY <1>5 DEF Attending, Inside, RowsOf
  <1>7. QED
    BY <1>1, <1>2, <1>4, <1>6 DEF Access!Init

LEMMA AccessStep == AInv /\ AInv' /\ [Next]_vars => [Access!Next]_Access!vars
  <1> SUFFICES ASSUME AInv, AInv', [Next]_vars PROVE Access!Next \/ Unseen
    BY DEF Access!vars, Unseen
  <1>1. IInv /\ IInv'
    BY DEF AInv
  <1>2. CASE \E c \in Calls : NewCall(c) \/ Statement(c)
    BY <1>1, <1>2, NewCallSeen, StatementSeen
  <1>3. CASE \E c \in Calls : Return(c)
    BY <1>3, QuietUnseen DEF Return
  <1>4. CASE \E u \in Users, r \in Rooms : GetMyParticipantStatus(u, r)
    BY <1>1, <1>4, MyStatusSeen
  <1>5. CASE UNCHANGED vars
    BY <1>5, QuietUnseen DEF vars
  <1>6. QED
    BY <1>2, <1>3, <1>4, <1>5 DEF Next, Quiescent

\* The requests and webhooks over the two tables implement RoomAccess: each statement is
\* one step of it about one person and one room, or none.
THEOREM RoomsImplementAccess == Spec => ImplementsAccess
  BY AInvariance, AccessInit, AccessStep, PTL DEF Spec, ImplementsAccess, Access!Spec

=============================================================================
