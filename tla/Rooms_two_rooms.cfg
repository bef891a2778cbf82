CONSTANTS
  Rooms = {r1, r2}
  Users = {u1, u2}
  Ids = {i1, i2, i3}
  Calls = {c1, c2}
  Types = {"public", "private"}
  MaxParticipants = 2
  MaxCalls = 3
  NoRoom = NoRoom
  NoUser = NoUser
  NoId = NoId
SPECIFICATION Spec
SYMMETRY Symmetry
INVARIANTS
  WaitingRoomHolds
  HostsWereAdmitted
PROPERTY
  ImplementsAccess
