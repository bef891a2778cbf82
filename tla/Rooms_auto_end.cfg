CONSTANTS
  Rooms = {r1}
  Users = {u1, u2}
  Ids = {i1, i2}
  Calls = {c1}
  Types = {"public"}
  MaxParticipants = 2
  MaxCalls = 6
  NoRoom = NoRoom
  NoUser = NoUser
  NoId = NoId
SPECIFICATION Spec
SYMMETRY Symmetry
PROPERTY
  AutoEndsEmptyRooms
